---- MODULE Spec2Model ----
(***************************************************************************)
(* Model of claude-go's credential vault (package vault) and self-updater  *)
(* (package update).                                                       *)
(*                                                                         *)
(* The vault file is a sequence of bytes laid out as in Vault.save:        *)
(*   magic(4) version(2) salt(32) nonce(12) ciphertext||tag                *)
(* Argon2id and AES-256-GCM are modelled as ideal primitives: the derived  *)
(* key is determined by (password, salt) and by nothing else, and a        *)
(* ciphertext opens only under the key and nonce that sealed it and only   *)
(* if no unit of it was changed.                                           *)
(***************************************************************************)
EXTENDS Integers, Sequences, FiniteSets, TLC

VARIABLES
    vfile,      \* the file at v.path
    vtmp,       \* the file at v.path + ".tmp"
    v,          \* the Vault handle held by the process
    vpc,        \* position of the running vault operation
    vop,        \* the operation in progress: its name, argument, staged file
    ret,        \* what the last finished vault operation returned
    clock,      \* time.Now()
    faults,     \* I/O failures injected so far
    crashes,    \* process crashes so far
    rt,         \* history: progress of a Create / SetEntry* / Open / Unlock run
    createdPw,  \* history: the password of the Create that wrote the vault file
    disk,       \* the files, directories and version marker under the USB root
    up,         \* per process: its Updater and the update operation it runs
    ufaults,    \* I/O failures injected into update operations so far
    ucrashes,   \* processes that died inside an update operation so far
    app,        \* the launcher: position of Run, and what its last run returned
    mu,         \* v.mu, the sync.RWMutex of the handle
    th          \* per goroutine sharing the handle: the call it is in

vaultVars == <<vfile, vtmp, v, vpc, vop, ret, clock, faults, crashes, rt, createdPw>>
updVars == <<disk, up, ufaults, ucrashes>>

procVars == <<app, mu, th>>

vars == <<vaultVars, updVars, procVars>>

----------------------------------------------------------------------------
(* Program constants                                                       *)

magicNumber == 1128482639
vaultVersion == 1
saltSize == 32
nonceSize == 12
argonKeyLen == 32
gcmTagSize == 16

ErrNone == "nil"
ErrVaultLocked == "vault is locked"
ErrWrongPassword == "incorrect password"
ErrInvalidVault == "invalid vault file"
ErrVaultNotFound == "vault not found"
ErrEntryNotFound == "credential entry not found"
ErrVaultCorrupted == "vault file corrupted"
ErrReadVault == "failed to read vault"
ErrUnsupportedVersion == "unsupported vault version"
ErrSerialize == "failed to serialize vault"
ErrWriteVault == "failed to write vault"
ErrFinalizeVault == "failed to finalize vault"
ErrSaveVault == "failed to save vault"

----------------------------------------------------------------------------
(* Bounds                                                                  *)

MaxClock == 3
MaxFaults == 1
MaxCrashes == 1

Passwords == {"pw1", "pw2"}

----------------------------------------------------------------------------
(* Files                                                                   *)

NoFile == [exists |-> FALSE, bytes |-> <<>>]
FileOf(b) == [exists |-> TRUE, bytes |-> b]

Prefix(s, n) == SubSeq(s, 1, n)
Suffix(s, n) == SubSeq(s, n + 1, Len(s))

\* binary.BigEndian
PutUint32(x) == << (x \div 16777216) % 256, (x \div 65536) % 256, (x \div 256) % 256, x % 256 >>
PutUint16(x) == << (x \div 256) % 256, x % 256 >>
Uint32(b) == b[1] * 16777216 + b[2] * 65536 + b[3] * 256 + b[4]
Uint16AnyVersion(b) == vaultVersion
Uint16(b) == b[1] * 256 + b[2]

\* crypto/rand: the bytes drawn, one outcome per seed
RandSeeds == {1, 2}
RandBytes(n, c) == [i \in 1..n |-> c]

----------------------------------------------------------------------------
(* encoding/json                                                           *)

\* Entry.Data is a json.RawMessage. form "nil": a nil slice; "compact": a JSON
\* document as json.Marshal writes it; "spaced": a JSON document with
\* insignificant white space; "invalid": bytes that are not a JSON document.
NilData == [form |-> "nil", val |-> ""]
JsonDoc(val) == [form |-> "compact", val |-> val]
SpacedDoc(val) == [form |-> "spaced", val |-> val]
NotJson(val) == [form |-> "invalid", val |-> val]

EmptyMap == [x \in {} |-> ""]
NilMeta == [isNil |-> TRUE, m |-> EmptyMap]
MetaOf(m) == [isNil |-> FALSE, m |-> m]

\* A string that is not valid UTF-8 is written with U+FFFD in place of the
\* offending bytes.
BadUtf8 == "k<FF>"
CoerceUtf8(s) == IF s = BadUtf8 THEN "k<FFFD>" ELSE s

\* Map keys in the order json.Marshal writes them (sorted by bytes).
KeyOrder == <<"a", "auth/bedrock", "auth/console", "b", "k<FFFD>", "k<FF>">>

\* RawMessage.MarshalJSON followed by the encoder's compact().
RawValid(d) == d.form # "invalid"
MarshalRaw(d) == IF d.form = "nil" THEN JsonDoc("null") ELSE JsonDoc(d.val)

MarshalEntryDropProvider(key, e) ==
    [t |-> "entry", key |-> CoerceUtf8(key), id |-> CoerceUtf8(e.ID), type |-> e.Type,
     provider |-> "", data |-> MarshalRaw(e.Data),
     created_at |-> e.CreatedAt, updated_at |-> e.UpdatedAt,
     hasExpires |-> e.ExpiresAt # 0, expires_at |-> e.ExpiresAt,
     hasMeta |-> DOMAIN e.Metadata.m # {}, metadata |-> e.Metadata.m]

MarshalEntry(key, e) ==
    [t |-> "entry", key |-> CoerceUtf8(key), id |-> CoerceUtf8(e.ID), type |-> e.Type,
     provider |-> CoerceUtf8(e.Provider), data |-> MarshalRaw(e.Data),
     created_at |-> e.CreatedAt, updated_at |-> e.UpdatedAt,
     hasExpires |-> e.ExpiresAt # 0, expires_at |-> e.ExpiresAt,
     hasMeta |-> DOMAIN e.Metadata.m # {}, metadata |-> e.Metadata.m]

UnmarshalEntry(tok) ==
    [ID |-> tok.id, Type |-> tok.type, Provider |-> tok.provider, Data |-> tok.data,
     CreatedAt |-> tok.created_at, UpdatedAt |-> tok.updated_at,
     ExpiresAt |-> IF tok.hasExpires THEN tok.expires_at ELSE 0,
     Metadata |-> IF tok.hasMeta THEN MetaOf(tok.metadata) ELSE NilMeta]

RECURSIVE MarshalEntries(_, _)
MarshalEntries(entries, i) ==
    IF i > Len(KeyOrder) THEN <<>>
    ELSE (IF KeyOrder[i] \in DOMAIN entries
            THEN <<MarshalEntry(KeyOrder[i], entries[KeyOrder[i]])>>
            ELSE <<>>) \o MarshalEntries(entries, i + 1)

\* json.Marshal(v.data): the plaintext, one unit per top-level piece.
MarshalOk(d) == \A k \in DOMAIN d.Entries : RawValid(d.Entries[k].Data)
Marshal(d) ==
    <<[t |-> "hdr", version |-> d.Version, created_at |-> d.CreatedAt,
       updated_at |-> d.UpdatedAt]>> \o MarshalEntries(d.Entries, 1)

NoData == [present |-> FALSE, Version |-> 0, Entries |-> EmptyMap, CreatedAt |-> 0, UpdatedAt |-> 0]

\* json.Unmarshal(plaintext, v.data)
UnmarshalOk(pt) ==
    /\ Len(pt) >= 1
    /\ pt[1].t = "hdr"
    /\ \A i \in 2..Len(pt) : pt[i].t = "entry"
Unmarshal(pt) ==
    LET keys == {pt[i].key : i \in 2..Len(pt)}
        last(k) == CHOOSE i \in 2..Len(pt) :
                      pt[i].key = k /\ \A j \in 2..Len(pt) : pt[j].key = k => j <= i
    IN [present |-> TRUE, Version |-> pt[1].version,
        Entries |-> [k \in keys |-> UnmarshalEntry(pt[last(k)])],
        CreatedAt |-> pt[1].created_at, UpdatedAt |-> pt[1].updated_at]

----------------------------------------------------------------------------
(* argon2.IDKey, aes.NewCipher, cipher.NewGCM                              *)

NoKey == <<>>
NoSalt == <<>>
NoGcm == [set |-> FALSE, kid |-> <<>>]

\* A byte string as the primitives see it: its length, its first byte and
\* the positions that differ from the first byte. Two byte strings have the
\* same digest exactly when they are equal.
Digest(b) ==
    IF Len(b) = 0 THEN <<0, 0, {}>>
    ELSE <<Len(b), b[1], {<<i, b[i]>> : i \in {j \in 1..Len(b) : b[j] # b[1]}}>>

Kdf(password, salt) == <<password, Digest(salt)>>
IDKey(password, salt) == [i \in 1..argonKeyLen |-> <<i, Kdf(password, salt)>>]
NewGCM(key) == [set |-> TRUE, kid |-> key[1][2]]

\* The authentication tag: gcmTagSize units, determined by key, nonce and
\* plaintext together.
TagUnits(kid, nonce, pt) ==
    [j \in 1..gcmTagSize |->
        [u |-> "t", i |-> j, kid |-> kid, nonce |-> Digest(nonce),
         x |-> IF j = 1 THEN pt ELSE <<>>]]
\* gcm.Seal(nil, nonce, plaintext, nil)
Seal(gcm, nonce, pt) ==
    [i \in 1..Len(pt) |->
        [u |-> "c", i |-> i, kid |-> gcm.kid, nonce |-> Digest(nonce), x |-> <<pt[i]>>]]
    \o TagUnits(gcm.kid, nonce, pt)

\* gcm.Open(nil, nonce, ciphertext, nil)
OpenOkNoTag(gcm, nonce, ct) ==
    /\ Len(ct) >= gcmTagSize
    /\ \A i \in 1..(Len(ct) - gcmTagSize) :
          /\ ct[i].u = "c"
          /\ ct[i].kid = gcm.kid
          /\ ct[i].nonce = Digest(nonce)
          /\ ct[i].i = i
          /\ Len(ct[i].x) = 1
OpenBody(ct) == [i \in 1..(Len(ct) - gcmTagSize) |-> ct[i].x[1]]
OpenOk(gcm, nonce, ct) ==
    /\ Len(ct) >= gcmTagSize
    /\ \A i \in 1..(Len(ct) - gcmTagSize) :
          /\ ct[i].u = "c"
          /\ ct[i].kid = gcm.kid
          /\ ct[i].nonce = Digest(nonce)
          /\ ct[i].i = i
          /\ Len(ct[i].x) = 1
    /\ Suffix(ct, Len(ct) - gcmTagSize) = TagUnits(gcm.kid, nonce, OpenBody(ct))

----------------------------------------------------------------------------
(* The Vault handle                                                        *)

NoHandle == [open |-> FALSE, unlocked |-> FALSE, salt |-> NoSalt, key |-> NoKey,
             gcm |-> NoGcm, data |-> NoData]

\* Open: &Vault{path: path, unlocked: false}
OpenedHandle == [open |-> TRUE, unlocked |-> FALSE, salt |-> NoSalt, key |-> NoKey,
                 gcm |-> NoGcm, data |-> NoData]

\* copy(dst[0:n], src)
CopyInto(n, src) == [i \in 1..n |-> IF i <= Len(src) THEN src[i] ELSE 0]

\* The file save assembles: magic + version + salt + nonce + ciphertext.
AssembleFileNewSalt(h, nonce, ciphertext) ==
    PutUint32(magicNumber) \o PutUint16(vaultVersion) \o CopyInto(saltSize, nonce)
    \o CopyInto(nonceSize, nonce) \o ciphertext
AssembleFile(h, nonce, ciphertext) ==
    PutUint32(magicNumber) \o PutUint16(vaultVersion) \o CopyInto(saltSize, h.salt)
    \o CopyInto(nonceSize, nonce) \o ciphertext

SaveBytesOldNonce(h, nonce) ==
    AssembleFile(h, RandBytes(nonceSize, 1), Seal(h.gcm, RandBytes(nonceSize, 1), Marshal(h.data)))
SaveBytes(h, nonce) == AssembleFile(h, nonce, Seal(h.gcm, nonce, Marshal(h.data)))

\* Vault.Unlock on handle h reading `file` : the handle afterwards and the error.
UnlockResult(h, file, password) ==
    LET data == file.bytes
        salt == SubSeq(data, 7, 6 + saltSize)
        key == IDKey(password, salt)
        gcm == NewGCM(key)
        h1 == [h EXCEPT !.salt = salt]
        h2 == [h1 EXCEPT !.key = key, !.gcm = gcm]
        nonce == SubSeq(data, 6 + saltSize + 1, 6 + saltSize + nonceSize)
        ciphertext == Suffix(data, 6 + saltSize + nonceSize)
        plaintext == OpenBody(ciphertext)
    IN  IF ~file.exists THEN [v |-> h, err |-> ErrReadVault]
        ELSE IF Len(data) < 6 THEN [v |-> h, err |-> ErrInvalidVault]
        ELSE IF Uint32(SubSeq(data, 1, 4)) # magicNumber THEN [v |-> h, err |-> ErrInvalidVault]
        ELSE IF Uint16(SubSeq(data, 5, 6)) # vaultVersion THEN [v |-> h, err |-> ErrUnsupportedVersion]
        ELSE IF Len(data) < 6 + saltSize THEN [v |-> h, err |-> ErrVaultCorrupted]
        ELSE IF Len(data) < 6 + saltSize + nonceSize THEN [v |-> h2, err |-> ErrVaultCorrupted]
        ELSE IF ~OpenOk(gcm, nonce, ciphertext) THEN [v |-> h2, err |-> ErrWrongPassword]
        ELSE IF ~UnmarshalOk(plaintext)
             THEN [v |-> [h2 EXCEPT !.data = [NoData EXCEPT !.present = TRUE]],
                   err |-> ErrVaultCorrupted]
        ELSE [v |-> [h2 EXCEPT !.data = Unmarshal(plaintext), !.unlocked = TRUE],
              err |-> ErrNone]

\* Vault.Lock
LockedHandle(h) == [h EXCEPT !.key = NoKey, !.gcm = NoGcm, !.data = NoData, !.unlocked = FALSE]

\* Vault.GetEntry
GetEntryUnchecked(h, id) ==
    IF id \notin DOMAIN h.data.Entries THEN ErrEntryNotFound ELSE ErrNone
GetEntryErr(h, id) ==
    IF ~h.unlocked THEN ErrVaultLocked
    ELSE IF id \notin DOMAIN h.data.Entries THEN ErrEntryNotFound
    ELSE ErrNone

\* Vault.ListEntries: the copies it returns, without the Data field
ListEntriesErr(h) == IF ~h.unlocked THEN ErrVaultLocked ELSE ErrNone
ListEntriesWithData(h) == {h.data.Entries[k] : k \in DOMAIN h.data.Entries}
ListEntriesVal(h) ==
    {[e EXCEPT !.Data = NilData] : e \in {h.data.Entries[k] : k \in DOMAIN h.data.Entries}}

\* Vault.SetEntry up to its call of save: the handle with the entry stored
SetEntryErr(h) == IF ~h.unlocked THEN ErrVaultLocked ELSE ErrNone
SetEntryStaged(h, entry, now) ==
    LET e == [entry EXCEPT !.CreatedAt = IF entry.CreatedAt = 0 THEN now ELSE entry.CreatedAt,
                           !.UpdatedAt = now]
        keys == DOMAIN h.data.Entries \cup {entry.ID}
    IN [h EXCEPT !.data.Entries = [k \in keys |-> IF k = entry.ID THEN e ELSE h.data.Entries[k]],
                 !.data.UpdatedAt = now]

\* Vault.DeleteEntry up to its call of save
DeleteEntryErr(h, id) ==
    IF ~h.unlocked THEN ErrVaultLocked
    ELSE IF id \notin DOMAIN h.data.Entries THEN ErrEntryNotFound
    ELSE ErrNone
DeleteEntryStaged(h, id, now) ==
    [h EXCEPT !.data.Entries = [k \in DOMAIN h.data.Entries \ {id} |-> h.data.Entries[k]],
              !.data.UpdatedAt = now]

\* Create up to its call of save
CreatedHandle(password, salt, now) ==
    [open |-> TRUE, unlocked |-> TRUE, salt |-> salt, key |-> IDKey(password, salt),
     gcm |-> NewGCM(IDKey(password, salt)),
     data |-> [present |-> TRUE, Version |-> 1, Entries |-> EmptyMap,
               CreatedAt |-> now, UpdatedAt |-> now]]

----------------------------------------------------------------------------
(* Inputs                                                                  *)

NewEntry(id, type, provider, data, meta) ==
    [ID |-> id, Type |-> type, Provider |-> provider, Data |-> data,
     CreatedAt |-> 0, UpdatedAt |-> 0, ExpiresAt |-> 0, Metadata |-> meta]

InputEntries ==
    { NewEntry("a", "oauth", "claudeai", JsonDoc("tokenA"), NilMeta),
      NewEntry("b", "apikey", "console", JsonDoc("keyB"), MetaOf([x \in {"env"} |-> "prod"])),
      NewEntry("a", "apikey", "console", SpacedDoc("keyA"), MetaOf(EmptyMap)),
      NewEntry("b", "apikey", "bedrock", NilData, NilMeta),
      NewEntry("b", "apikey", "vertex", NotJson("raw-key"), NilMeta),
      NewEntry(BadUtf8, "mcp", "console", JsonDoc("m"), NilMeta) }

EntryIds == {"a", "b", "k<FFFD>", "k<FF>"}

----------------------------------------------------------------------------
(* The files save touches                                                  *)

Disk == [file |-> vfile, tmp |-> vtmp]

\* os.WriteFile(tmpPath, ...) leaving `content` behind (all of it, or the part
\* written before a failure or a crash)
WriteInPlace(d, content) == [d EXCEPT !.file = content]
WriteTmp(d, content) == [d EXCEPT !.tmp = content]

\* os.Rename(tmpPath, v.path)
RenameTmp(d) == [file |-> d.tmp, tmp |-> NoFile]

\* os.Remove(tmpPath) after a failed rename
RemoveVaultFile(d) == [d EXCEPT !.file = NoFile]
RemoveTmp(d) == [d EXCEPT !.tmp = NoFile]

\* Where a write of n bytes may stop short: before the first byte, after the
\* salt, one byte before the end.
CutPoints(n) == {0, 6 + saltSize, n - 1} \cap 0..(n - 1)

\* The vault file with one byte changed by someone who can write the medium.
\* A changed header, salt or nonce byte holds another value; a changed
\* ciphertext byte decrypts to another well-formed piece of plaintext (AES-GCM
\* encrypts in counter mode); a changed tag byte is no longer the tag's byte.
FlipPlain(tok) ==
    IF tok.t = "hdr" THEN [tok EXCEPT !.version = tok.version + 1]
    ELSE [tok EXCEPT !.data = JsonDoc("forged")]
FlipByte(bytes, pos) ==
    IF pos <= 6 + saltSize + nonceSize THEN (bytes[pos] + 1) % 256
    ELSE IF bytes[pos].u = "c" THEN [bytes[pos] EXCEPT !.x = <<FlipPlain(bytes[pos].x[1])>>]
    ELSE [bytes[pos] EXCEPT !.i = 0]
TamperedFile(file, pos) == FileOf([file.bytes EXCEPT ![pos] = FlipByte(file.bytes, pos)])

\* The first and last byte of the magic, of the version, of the salt, of the
\* nonce, of the ciphertext and of the tag of a file of n bytes.
TamperPositions(n) ==
    {1, 4, 5, 6, 7, 6 + saltSize, 6 + saltSize + 1, 6 + saltSize + nonceSize,
     6 + saltSize + nonceSize + 1, n - gcmTagSize, n - gcmTagSize + 1, n}

\* The passwords that unlock `file` through a fresh handle.
OpensWith(file) == {pw \in Passwords : UnlockResult(OpenedHandle, file, pw).err = ErrNone}

----------------------------------------------------------------------------
(* Vault operations                                                        *)

NoOp == [name |-> "", arg |-> "", file |-> <<>>, old |-> NoFile, nonce |-> <<>>]
NoRet == [op |-> "", err |-> ErrNone, arg |-> "", pre |-> FALSE]
Ret(op, err, arg, pre) == [op |-> op, err |-> err, arg |-> arg, pre |-> pre]

RtOff == [phase |-> "off", pw |-> "", E |-> EmptyMap, at |-> 0]

\* The return of an operation that ran save. Create wraps save's error and
\* returns no handle then.
Finish(err, faulted) ==
    /\ vpc' = "idle"
    /\ vop' = NoOp
    /\ ret' = Ret(vop.name, IF vop.name = "Create" /\ err # ErrNone THEN ErrSaveVault ELSE err,
                  vop.arg, TRUE)
    /\ v' = IF vop.name = "Create" /\ err # ErrNone THEN NoHandle ELSE v
    /\ createdPw' = IF vop.name = "Create" /\ err = ErrNone THEN vop.arg ELSE createdPw
    /\ rt' = IF faulted THEN RtOff
             ELSE IF vop.name = "Create" /\ err = ErrNone
                  THEN [phase |-> "sets", pw |-> vop.arg, E |-> EmptyMap, at |-> 0]
                  ELSE rt

Create(password, sc, nc) ==
    /\ vpc = "idle"
    /\ clock < MaxClock
    /\ LET h == CreatedHandle(password, RandBytes(saltSize, sc), clock + 1)
       IN /\ v' = h
          /\ vop' = [name |-> "Create", arg |-> password,
                     file |-> SaveBytes(h, RandBytes(nonceSize, nc)), old |-> vfile,
                     nonce |-> RandBytes(nonceSize, nc)]
    /\ vpc' = "save_write"
    /\ clock' = clock + 1
    /\ ret' = NoRet
    /\ rt' = RtOff
    /\ UNCHANGED <<vfile, vtmp, faults, crashes, createdPw, updVars, procVars>>

\* os.MkdirAll(filepath.Dir(path)) fails
CreateMkdirFails(password) ==
    /\ vpc = "idle"
    /\ clock < MaxClock
    /\ faults < MaxFaults
    /\ faults' = faults + 1
    /\ clock' = clock + 1
    /\ v' = NoHandle
    /\ ret' = Ret("Create", "failed to create vault directory", password, FALSE)
    /\ rt' = RtOff
    /\ UNCHANGED <<vfile, vtmp, vpc, vop, crashes, createdPw, updVars, procVars>>

Open ==
    /\ vpc = "idle"
    /\ IF vfile.exists
         THEN /\ v' = OpenedHandle
              /\ ret' = Ret("Open", ErrNone, "", FALSE)
              /\ rt' = IF rt.phase = "sets" THEN [rt EXCEPT !.phase = "opened"]
                       ELSE IF rt.phase = "tampered" THEN rt
                       ELSE RtOff
         ELSE /\ v' = NoHandle
              /\ ret' = Ret("Open", ErrVaultNotFound, "", FALSE)
              /\ rt' = RtOff
    /\ UNCHANGED <<vfile, vtmp, vpc, vop, clock, faults, crashes, createdPw, updVars, procVars>>

Unlock(password) ==
    /\ vpc = "idle"
    /\ v.open
    /\ LET r == UnlockResult(v, vfile, password)
       IN /\ v' = r.v
          /\ ret' = Ret("Unlock", r.err, password, v.unlocked)
    /\ rt' = IF rt.phase = "opened" THEN [rt EXCEPT !.phase = "checked"]
             ELSE IF rt.phase = "tampered" THEN [rt EXCEPT !.phase = "tamperchecked"]
             ELSE RtOff
    /\ UNCHANGED <<vfile, vtmp, vpc, vop, clock, faults, crashes, createdPw, updVars, procVars>>

Lock ==
    /\ vpc = "idle"
    /\ v.open
    /\ v' = LockedHandle(v)
    /\ ret' = Ret("Lock", ErrNone, "", v.unlocked)
    /\ rt' = RtOff
    /\ UNCHANGED <<vfile, vtmp, vpc, vop, clock, faults, crashes, createdPw, updVars, procVars>>

GetEntry(id) ==
    /\ vpc = "idle"
    /\ v.open
    /\ ret' = Ret("GetEntry", GetEntryErr(v, id), id, v.unlocked)
    /\ rt' = IF rt.phase = "sets" THEN rt ELSE RtOff
    /\ UNCHANGED <<vfile, vtmp, v, vpc, vop, clock, faults, crashes, createdPw, updVars, procVars>>

ListEntries ==
    /\ vpc = "idle"
    /\ v.open
    /\ ret' = Ret("ListEntries", ListEntriesErr(v), "", v.unlocked)
    /\ rt' = IF rt.phase = "sets" THEN rt ELSE RtOff
    /\ UNCHANGED <<vfile, vtmp, v, vpc, vop, clock, faults, crashes, createdPw, updVars, procVars>>

\* The history of a Create / SetEntry* run: the entries handed to SetEntry, as
\* the caller handed them; a second SetEntry for an identifier ends the run.
RtOnSet(entry) ==
    IF rt.phase = "sets" /\ entry.ID \notin DOMAIN rt.E
      THEN [rt EXCEPT !.E = [k \in DOMAIN rt.E \cup {entry.ID} |->
                                IF k = entry.ID THEN entry ELSE rt.E[k]]]
      ELSE RtOff

SetEntry(entry, nc) ==
    /\ vpc = "idle"
    /\ v.open
    /\ IF SetEntryErr(v) # ErrNone
         THEN /\ ret' = Ret("SetEntry", SetEntryErr(v), entry.ID, FALSE)
              /\ rt' = RtOff
              /\ UNCHANGED <<v, vpc, vop, clock>>
         ELSE /\ clock < MaxClock
              /\ clock' = clock + 1
              /\ rt' = RtOnSet(entry)
              /\ LET h == SetEntryStaged(v, entry, clock + 1)
                 IN /\ v' = h
                    /\ IF MarshalOk(h.data)
                         THEN /\ vpc' = "save_write"
                              /\ vop' = [name |-> "SetEntry", arg |-> entry.ID,
                                         file |-> SaveBytes(h, RandBytes(nonceSize, nc)),
                                         old |-> vfile,
                                         nonce |-> RandBytes(nonceSize, nc)]
                              /\ ret' = NoRet
                         ELSE /\ ret' = Ret("SetEntry", ErrSerialize, entry.ID, TRUE)
                              /\ UNCHANGED <<vpc, vop>>
    /\ UNCHANGED <<vfile, vtmp, faults, crashes, createdPw, updVars, procVars>>

DeleteEntry(id, nc) ==
    /\ vpc = "idle"
    /\ v.open
    /\ rt' = RtOff
    /\ IF DeleteEntryErr(v, id) # ErrNone
         THEN /\ ret' = Ret("DeleteEntry", DeleteEntryErr(v, id), id, v.unlocked)
              /\ UNCHANGED <<v, vpc, vop, clock>>
         ELSE /\ clock < MaxClock
              /\ clock' = clock + 1
              /\ LET h == DeleteEntryStaged(v, id, clock + 1)
                 IN /\ v' = h
                    /\ IF MarshalOk(h.data)
                         THEN /\ vpc' = "save_write"
                              /\ vop' = [name |-> "DeleteEntry", arg |-> id,
                                         file |-> SaveBytes(h, RandBytes(nonceSize, nc)),
                                         old |-> vfile,
                                         nonce |-> RandBytes(nonceSize, nc)]
                              /\ ret' = NoRet
                         ELSE /\ ret' = Ret("DeleteEntry", ErrSerialize, id, TRUE)
                              /\ UNCHANGED <<vpc, vop>>
    /\ UNCHANGED <<vfile, vtmp, faults, crashes, createdPw, updVars, procVars>>

\* save: os.WriteFile(tmpPath, file, 0600)
SaveWriteFile ==
    /\ vpc = "save_write"
    /\ LET d == WriteTmp(Disk, FileOf(vop.file))
       IN vfile' = d.file /\ vtmp' = d.tmp
    /\ vpc' = "save_rename"
    /\ UNCHANGED <<v, vop, ret, clock, faults, crashes, rt, createdPw, updVars, procVars>>

\* os.WriteFile fails: before creating the file, or after writing k bytes
SaveWriteFileFails(opened, k) ==
    /\ vpc = "save_write"
    /\ faults < MaxFaults
    /\ faults' = faults + 1
    /\ LET d == IF opened THEN WriteTmp(Disk, FileOf(Prefix(vop.file, k))) ELSE Disk
       IN vfile' = d.file /\ vtmp' = d.tmp
    /\ Finish(ErrWriteVault, TRUE)
    /\ UNCHANGED <<clock, crashes, updVars, procVars>>

\* save: os.Rename(tmpPath, v.path)
SaveRename ==
    /\ vpc = "save_rename"
    /\ vtmp.exists
    /\ LET d == RenameTmp(Disk)
       IN vfile' = d.file /\ vtmp' = d.tmp
    /\ Finish(ErrNone, FALSE)
    /\ UNCHANGED <<clock, faults, crashes, updVars, procVars>>

\* os.Rename fails (injected, or there is no temporary file): os.Remove(tmpPath)
SaveRenameFails ==
    /\ vpc = "save_rename"
    /\ \/ /\ ~vtmp.exists
          /\ UNCHANGED faults
       \/ /\ faults < MaxFaults
          /\ faults' = faults + 1
    /\ LET d == RemoveTmp(Disk)
       IN vfile' = d.file /\ vtmp' = d.tmp
    /\ Finish(ErrFinalizeVault, TRUE)
    /\ UNCHANGED <<clock, crashes, updVars, procVars>>

\* The process dies (power loss, device removal). While os.WriteFile runs, the
\* temporary file may be absent, empty or hold any prefix of the new content.
Crash(opened, k) ==
    /\ crashes < MaxCrashes
    /\ crashes' = crashes + 1
    /\ v.open
    /\ LET d == IF vpc = "save_write" /\ opened
                  THEN WriteTmp(Disk, FileOf(Prefix(vop.file, k)))
                  ELSE Disk
       IN vfile' = d.file /\ vtmp' = d.tmp
    /\ v' = NoHandle
    /\ vpc' = "idle"
    /\ vop' = NoOp
    /\ ret' = Ret("crash", ErrNone, "", FALSE)
    /\ rt' = RtOff
    /\ UNCHANGED <<clock, faults, createdPw, updVars, procVars>>

VaultInit ==
    /\ vfile = NoFile
    /\ vtmp = NoFile
    /\ v = NoHandle
    /\ vpc = "idle"
    /\ vop = NoOp
    /\ ret = NoRet
    /\ clock = 0
    /\ faults = 0
    /\ crashes = 0
    /\ rt = RtOff
    /\ createdPw = ""

VaultNext ==
    \/ \E pw \in Passwords : Create(pw, 1, 1)
    \/ Open
    \/ \E pw \in Passwords : Unlock(pw)
    \/ Lock
    \/ \E id \in EntryIds : GetEntry(id)
    \/ ListEntries
    \/ \E e \in InputEntries : SetEntry(e, 2)
    \/ \E id \in EntryIds : DeleteEntry(id, 1)
    \/ SaveWriteFile
    \/ SaveRename

\* The same operations on fewer inputs, with I/O failures and crashes.
FaultEntries ==
    { NewEntry("a", "oauth", "claudeai", JsonDoc("tokenA"), NilMeta),
      NewEntry("b", "apikey", "vertex", NotJson("raw-key"), NilMeta) }

\* One byte of a valid vault file is changed while no operation runs.
Tamper(pos) ==
    /\ vpc = "idle"
    /\ v.open
    /\ vfile.exists
    /\ OpensWith(vfile) # {}
    /\ pos \in 1..Len(vfile.bytes)
    /\ vfile' = TamperedFile(vfile, pos)
    /\ LET pw == CHOOSE p \in OpensWith(vfile) : TRUE
       IN rt' = [phase |-> "tampered", pw |-> pw,
                 E |-> UnlockResult(OpenedHandle, vfile, pw).v.data.Entries, at |-> pos]
    /\ ret' = Ret("tamper", ErrNone, "", v.unlocked)
    /\ UNCHANGED <<vtmp, v, vpc, vop, clock, faults, crashes, createdPw, updVars, procVars>>

TamperEntries == {NewEntry("a", "oauth", "claudeai", JsonDoc("tokenA"), NilMeta)}

TamperNext ==
    \/ Create("pw1", 1, 1)
    \/ Open
    \/ \E pw \in Passwords : Unlock(pw)
    \/ Lock
    \/ \E e \in TamperEntries : SetEntry(e, 2)
    \/ \E id \in {"a"} : GetEntry(id)
    \/ SaveWriteFile
    \/ SaveRename
    \/ \E pos \in TamperPositions(Len(vfile.bytes)) : Tamper(pos)

\* Saves whose nonce is any outcome of the random source, over lock and
\* unlock sessions.
NonceNext ==
    \/ \E nc \in RandSeeds : Create("pw1", 1, nc)
    \/ Open
    \/ Unlock("pw1")
    \/ Lock
    \/ \E e \in TamperEntries, nc \in RandSeeds : SetEntry(e, nc)
    \/ \E nc \in RandSeeds : DeleteEntry("a", nc)
    \/ SaveWriteFile
    \/ SaveRename

FaultNext ==
    \/ \E sc \in RandSeeds : Create("pw1", sc, 1)
    \/ CreateMkdirFails("pw1")
    \/ Open
    \/ \E pw \in Passwords : Unlock(pw)
    \/ \E e \in FaultEntries : SetEntry(e, 2)
    \/ \E id \in {"a", "b"} : DeleteEntry(id, 2)
    \/ SaveWriteFile
    \/ \E o \in BOOLEAN, k \in CutPoints(Len(vop.file)) : SaveWriteFileFails(o, k)
    \/ SaveRename
    \/ SaveRenameFails
    \/ \E o \in BOOLEAN, k \in CutPoints(Len(vop.file)) \cup {Len(vop.file)} : Crash(o, k)


----------------------------------------------------------------------------
(* The updater: paths and the files under the USB root                     *)

\* A path is the sequence of its components, relative to the USB root; a
\* leading ".." component leaves the root.
HasPrefix(path, d) == Len(path) >= Len(d) /\ SubSeq(path, 1, Len(d)) = d
Last(path) == path[Len(path)]
Dir(path) == SubSeq(path, 1, Len(path) - 1)

\* filepath.Clean, as filepath.Join applies it
RECURSIVE CleanFrom(_, _)
CleanFrom(done, rest) ==
    IF rest = <<>> THEN done
    ELSE LET c == Head(rest)
         IN IF c = "." \/ c = "" THEN CleanFrom(done, Tail(rest))
            ELSE IF c = ".." /\ done # <<>> /\ Last(done) # ".."
                   THEN CleanFrom(Dir(done), Tail(rest))
                   ELSE CleanFrom(Append(done, c), Tail(rest))
Clean(path) == CleanFrom(<<>>, path)

binDir == <<"bin">>
rollbackDir == <<".rollback">>
cacheDir == <<"cache">>
ProtectedDirs == {<<"vault">>, <<"sessions">>, <<"config">>}

\* Every path the model uses, in the lexical order filepath.Walk visits them.
PathOrder ==
    << <<"bin">>, <<"bin", "claude-go">>, <<"bin", "helper">>,
       <<".rollback">>, <<".rollback", "claude-go">>, <<".rollback", "helper">> >>

\* The disk: regular files with their content, directories, and the version
\* marker file .version.
NoMarker == [exists |-> FALSE, json |-> FALSE, version |-> <<>>]

Ancestors(path) == {SubSeq(path, 1, n) : n \in 1..Len(path)}

\* os.MkdirAll
MkdirAll(d, path) == [d EXCEPT !.dirs = @ \cup Ancestors(path)]

\* os.RemoveAll
RemoveAll(d, path) ==
    [d EXCEPT !.files = [q \in {r \in DOMAIN d.files : ~HasPrefix(r, path)} |-> d.files[q]],
              !.dirs = {r \in d.dirs : ~HasPrefix(r, path)}]

\* A failing os.RemoveAll: it removed nothing
RemoveNothing(d, path) == d

DirExists(d, path) == path \in d.dirs
DirEmpty(d, path) ==
    /\ \A q \in DOMAIN d.files : ~HasPrefix(q, path)
    /\ \A q \in d.dirs : HasPrefix(q, path) => q = path

\* os.Rename(from, to) of a directory: possible when `to` is absent or empty
Reprefix(q, from, to) == to \o SubSeq(q, Len(from) + 1, Len(q))
RenameOk(d, from, to) == DirExists(d, from) /\ DirEmpty(d, to)
RenameDir(d, from, to) ==
    LET kept == {q \in DOMAIN d.files : ~HasPrefix(q, from)}
        moved == {Reprefix(q, from, to) : q \in {r \in DOMAIN d.files : HasPrefix(r, from)}}
    IN [d EXCEPT
          !.files = [q \in kept \cup moved |->
                        IF q \in kept THEN d.files[q] ELSE d.files[Reprefix(q, to, from)]],
          !.dirs = {q \in d.dirs : ~HasPrefix(q, from)}
                   \cup {Reprefix(q, from, to) : q \in {r \in d.dirs : HasPrefix(r, from)}}]

\* A write of `content` to the regular file `path`
WriteFileAt(d, path, content) ==
    [d EXCEPT !.files = [q \in DOMAIN d.files \cup {path} |->
                            IF q = path THEN content ELSE d.files[q]]]

\* The files and directories under a directory, relative to it
Tree(d, root) ==
    [files |-> {<<Reprefix(q, root, <<>>), d.files[q]>> :
                    q \in {r \in DOMAIN d.files : HasPrefix(r, root)}},
     dirs |-> {Reprefix(q, root, <<>>) : q \in {r \in d.dirs : HasPrefix(r, root)}}]

\* copyDir's filepath.Walk(src): the directories and files under src, in order
RECURSIVE WalkFrom(_, _, _)
WalkFrom(d, src, i) ==
    IF i > Len(PathOrder) THEN <<>>
    ELSE (IF HasPrefix(PathOrder[i], src)
             /\ (PathOrder[i] \in d.dirs \/ PathOrder[i] \in DOMAIN d.files)
            THEN <<PathOrder[i]>> ELSE <<>>) \o WalkFrom(d, src, i + 1)
Walk(d, src) == WalkFrom(d, src, 1)

\* copyDir's callback for one visited path: MkdirAll for a directory,
\* copyFile for a file
CopyItem(d, src, dst, path) ==
    IF path \in d.dirs THEN MkdirAll(d, Reprefix(path, src, dst))
    ELSE WriteFileAt(d, Reprefix(path, src, dst), d.files[path])
CopyItemOk(d, src, dst, path) ==
    \/ path \in d.dirs
    \/ path \in DOMAIN d.files /\ Dir(Reprefix(path, src, dst)) \in d.dirs

----------------------------------------------------------------------------
(* Archives, manifests                                                     *)

\* A zip entry: its name as components (dir: the name ends in "/"), its
\* content, and whether reading the content fails (bad CRC, truncated).
ZipFile(name, data) == [name |-> name, dir |-> FALSE, data |-> data, corrupt |-> FALSE]
ZipDir(name) == [name |-> name, dir |-> TRUE, data |-> "", corrupt |-> FALSE]
ZipCorrupt(name, data) == [name |-> name, dir |-> FALSE, data |-> data, corrupt |-> TRUE]

ShNames == {"update.sh", "claude-go.sh", "evil.sh", "outside.sh"}
BatNames == {"update.bat", "claude-go.bat"}

\* strings.HasPrefix(f.Name, "bin/")
HasPrefixBin(e) == e.name # <<>> /\ e.name[1] = "bin" /\ (Len(e.name) >= 2 \/ e.dir)
\* strings.HasSuffix(f.Name, ".sh"), strings.HasSuffix(f.Name, ".bat")
HasSuffixSh(e) == e.name # <<>> /\ ~e.dir /\ Last(e.name) \in ShNames
HasSuffixBat(e) == e.name # <<>> /\ ~e.dir /\ Last(e.name) \in BatNames

\* extractUpdate's filter
Extracts(e) == HasPrefixBin(e) \/ HasSuffixSh(e) \/ HasSuffixBat(e)

\* filepath.Join(u.USBRoot, f.Name)
DestPath(e) == Clean(e.name)

\* extractUpdate's loop body for one entry: the disk afterwards, and whether
\* extractFile returned an error
ExtractEntryOk(d, e) ==
    \/ ~Extracts(e)
    \/ e.dir
    \/ ~e.corrupt /\ DestPath(e) \notin d.dirs /\ DestPath(e) # <<>>
ExtractEntry(d, e) ==
    IF ~Extracts(e) THEN d
    ELSE IF e.dir THEN MkdirAll(d, DestPath(e))
    ELSE IF DestPath(e) \in d.dirs \/ DestPath(e) = <<>> THEN MkdirAll(d, Dir(DestPath(e)))
    ELSE WriteFileAt(MkdirAll(d, Dir(DestPath(e))), DestPath(e),
                     IF e.corrupt THEN "truncated" ELSE e.data)

GoodArchive ==
    [id |-> "good", zip |-> TRUE,
     entries |-> << ZipDir(<<"bin">>), ZipFile(<<"bin", "claude-go">>, "new-claude"),
                    ZipFile(<<"bin", "helper">>, "new-helper"),
                    ZipFile(<<"update.sh">>, "new-script"),
                    ZipFile(<<"config", "settings.json">>, "new-config") >>]
CraftedArchive ==
    [id |-> "crafted", zip |-> TRUE,
     entries |-> << ZipFile(<<"bin", "claude-go">>, "new-claude"),
                    ZipFile(<<"bin", "helper">>, "new-helper"),
                    ZipFile(<<"vault", "evil.sh">>, "evil"),
                    ZipFile(<<"bin", "..", "vault", "credentials.vault">>, "evil") >>]
CorruptArchive ==
    [id |-> "corrupt", zip |-> TRUE,
     entries |-> << ZipFile(<<"bin", "claude-go">>, "new-claude"),
                    ZipCorrupt(<<"bin", "helper">>, "new-helper") >>]
NotAnArchive == [id |-> "notzip", zip |-> FALSE, entries |-> <<>>]

Archives == {GoodArchive, CraftedArchive, CorruptArchive, NotAnArchive}

\* sha256 + hex.EncodeToString: lower-case hex digits
HexOf(id, upper) == [hex |-> id, upper |-> upper]
Sha256Hex(archive) == HexOf(archive.id, FALSE)
ToLower(h) == [h EXCEPT !.upper = FALSE]
\* strings.EqualFold
EqualFold(a, b) == ToLower(a) = ToLower(b)

\* verifyChecksum
VerifyAlwaysOk(archive, expectedHash) == TRUE
VerifyOk(archive, expectedHash) == EqualFold(Sha256Hex(archive), expectedHash)

----------------------------------------------------------------------------
(* Version strings                                                         *)

\* A version string is the sequence of its characters.
Digits == <<"0", "1", "2", "3", "4", "5", "6", "7", "8", "9">>
IsDigit(c) == \E i \in 1..10 : Digits[i] = c
DigitVal(c) == (CHOOSE i \in 1..10 : Digits[i] = c) - 1

\* strconv.Itoa
RECURSIVE Itoa(_)
Itoa(n) == IF n < 10 THEN <<Digits[n + 1]>> ELSE Itoa(n \div 10) \o <<Digits[(n % 10) + 1]>>

\* strings.Split(s, ".")
RECURSIVE SplitFrom(_, _, _)
SplitFrom(s, i, cur) ==
    IF i > Len(s) THEN <<cur>>
    ELSE IF s[i] = "." THEN <<cur>> \o SplitFrom(s, i + 1, <<>>)
    ELSE SplitFrom(s, i + 1, Append(cur, s[i]))
Split(s) == SplitFrom(s, 1, <<>>)

\* fmt.Sscanf(part, "%d", &num): the leading run of decimal digits; num keeps
\* its zero value when there is none.
RECURSIVE ScanDigits(_, _, _)
ScanDigits(part, i, acc) ==
    IF i > Len(part) \/ ~IsDigit(part[i]) THEN acc
    ELSE ScanDigits(part, i + 1, acc * 10 + DigitVal(part[i]))
Sscanf(part) == ScanDigits(part, 1, 0)

\* A comparison of the strings character by character
RECURSIVE StringCompare(_, _, _)
StringCompare(a, b, i) ==
    IF i > Len(a) /\ i > Len(b) THEN 0
    ELSE IF i > Len(a) THEN -1
    ELSE IF i > Len(b) THEN 1
    ELSE IF a[i] = b[i] THEN StringCompare(a, b, i + 1)
    ELSE IF a[i] = "." THEN -1
    ELSE IF b[i] = "." THEN 1
    ELSE IF DigitVal(a[i]) > DigitVal(b[i]) THEN 1 ELSE -1
compareLexicographic(a, b) == StringCompare(a, b, 1)

RECURSIVE CompareFrom(_, _, _)
CompareFrom(partsA, partsB, i) ==
    IF i >= 3 THEN 0
    ELSE LET numA == IF i < Len(partsA) THEN Sscanf(partsA[i + 1]) ELSE 0
             numB == IF i < Len(partsB) THEN Sscanf(partsB[i + 1]) ELSE 0
         IN IF numA > numB THEN 1
            ELSE IF numA < numB THEN -1
            ELSE CompareFrom(partsA, partsB, i + 1)
compareVersions(a, b) == CompareFrom(Split(a), Split(b), 0)

\* The version string of a tuple of numbers: "1.10.0" of <<1, 10, 0>>
RECURSIVE FormatVersion(_)
FormatVersion(nums) ==
    IF Len(nums) = 1 THEN Itoa(nums[1])
    ELSE Itoa(nums[1]) \o <<".">> \o FormatVersion(Tail(nums))

ZeroVersion == <<"0", ".", "0", ".", "0">>

\* writeVersionFile / readVersionFile
MarkerOf(version) == [exists |-> TRUE, json |-> TRUE, version |-> version]
GarbageMarker == [exists |-> TRUE, json |-> FALSE, version |-> <<>>]
readVersionFile(marker) ==
    IF ~marker.exists THEN ZeroVersion
    ELSE IF ~marker.json THEN ZeroVersion
    ELSE marker.version

----------------------------------------------------------------------------
(* The updater                                                             *)

LinuxAMD64 == "linux-amd64"
GoosKeys == {LinuxAMD64, "plan9-386"}
AllPlatforms == {"darwin-arm64", "darwin-amd64", LinuxAMD64, "windows-amd64"}

ErrUnsupportedPlatform == "unsupported platform"
ErrFetchManifest == "failed to fetch manifest"
ErrManifestNotFound == "manifest not found"
ErrInvalidManifest == "invalid manifest"
ErrNoDownload == "no download available for platform"
ErrBackup == "failed to create backup"
ErrDownload == "download failed"
ErrChecksum == "checksum verification failed"
ErrExtraction == "extraction failed"

\* Manifest: the version string and the Downloads map (platform -> SHA256)
ManifestOf(nums, platforms, hash) ==
    [version |-> FormatVersion(nums), downloads |-> [pl \in platforms |-> [sha256 |-> hash]]]
NoManifest == [version |-> <<>>, downloads |-> <<>>]

UpdManifests ==
    {ManifestOf(<<1, 3, 0>>, {LinuxAMD64}, HexOf(a.id, FALSE)) : a \in Archives}
    \cup {ManifestOf(<<1, 3, 0>>, {LinuxAMD64}, HexOf("good", TRUE)),
          ManifestOf(<<1, 3, 0>>, {"darwin-arm64"}, HexOf("good", FALSE))}

\* What http.Get(download.URL) and the read of its body give
NoArchive == [id |-> "", zip |-> FALSE, entries |-> <<>>]
NoNet == [outcome |-> "", archive |-> NoArchive]
Nets ==
    {[outcome |-> "ok", archive |-> a] : a \in Archives}
    \cup {[outcome |-> o, archive |-> NoArchive] : o \in {"neterr", "status", "readerr"}}

InitDisk ==
    [files |-> ( <<"bin", "claude-go">> :> "old-claude"
              @@ <<"bin", "helper">> :> "old-helper"
              @@ <<"update.sh">> :> "old-script"
              @@ <<"vault", "credentials.vault">> :> "credentials"
              @@ <<"sessions", "s1.json">> :> "session"
              @@ <<"config", "settings.json">> :> "settings"
              @@ <<"cache", "blob">> :> "cached" ),
     dirs |-> {<<"bin">>, <<"vault">>, <<"sessions">>, <<"config">>, <<"cache">>},
     marker |-> MarkerOf(FormatVersion(<<1, 2, 0>>))]

\* What an update operation returned; step, rb, nex and pre are history: the
\* step that failed, how the rollback went, how many archive entries were
\* extracted, and the disk when the operation was called.
NoURet ==
    [op |-> "", err |-> ErrNone, step |-> "", rb |-> "none", nex |-> 0, pre |-> InitDisk,
     manifest |-> NoManifest, archive |-> NoArchive]
NoCheck == [done |-> FALSE, err |-> ErrNone, has |-> FALSE, version |-> <<>>]

NoUpdater ==
    [exists |-> FALSE, cur |-> <<>>, platform |-> "", pc |-> "idle", mode |-> "",
     manifest |-> NoManifest, net |-> NoNet, archive |-> NoArchive, todo |-> <<>>,
     step |-> "", rb |-> "none", nex |-> 0, pre |-> InitDisk,
     ret |-> NoURet, check |-> NoCheck]

UProcs == {1}

\* platform.Current
CurrentOk(key) == key \in AllPlatforms

NewUpdater(p, key) ==
    /\ up[p].pc = "idle"
    /\ up' = [up EXCEPT ![p] =
                IF CurrentOk(key)
                THEN [NoUpdater EXCEPT !.exists = TRUE, !.platform = key,
                                       !.cur = readVersionFile(disk.marker)]
                ELSE [NoUpdater EXCEPT !.ret = [NoURet EXCEPT !.op = "NewUpdater",
                                                              !.err = ErrUnsupportedPlatform]]]
    /\ UNCHANGED <<disk, ufaults, ucrashes, vaultVars, procVars>>

\* A server that accepts the connection and then sends nothing ("silent"), or
\* sends the status line and headers and then stops in the body ("stall").
\* http.Get is http.DefaultClient.Get; DefaultClient is the zero Client, whose
\* Timeout of zero means no timeout, and neither request carries a context:
\* nothing ends the wait for such a server.
HungServers == {"silent", "stall"}
Returns(outcome) == outcome \notin HungServers

\* resp: what http.Get(manifestURL) gives
CheckResponses == {"ok", "neterr", "status", "badjson"}
CheckForUpdate(p, resp, manifestVersion) ==
    /\ up[p].exists /\ up[p].pc = "idle"
    /\ up' = IF ~Returns(resp)
             THEN [up EXCEPT ![p].pc = "fetch", ![p].mode = "CheckForUpdate"]
             ELSE
             [up EXCEPT ![p].check =
                IF resp = "neterr" THEN [NoCheck EXCEPT !.done = TRUE, !.err = ErrFetchManifest]
                ELSE IF resp = "status"
                       THEN [NoCheck EXCEPT !.done = TRUE, !.err = ErrManifestNotFound]
                ELSE IF resp = "badjson"
                       THEN [NoCheck EXCEPT !.done = TRUE, !.err = ErrInvalidManifest]
                ELSE [done |-> TRUE, err |-> ErrNone,
                      has |-> compareVersions(manifestVersion, up[p].cur) > 0,
                      version |-> manifestVersion]]
    /\ UNCHANGED <<disk, ufaults, ucrashes, vaultVars, procVars>>

\* The next step of the operation running in p
Goto(p, pc) == up' = [up EXCEPT ![p].pc = pc]

\* The operation returns err to its caller
Return(p, err) ==
    up' = [up EXCEPT ![p] =
             [NoUpdater EXCEPT !.exists = TRUE, !.cur = up[p].cur, !.platform = up[p].platform,
                               !.check = up[p].check,
                               !.ret = [op |-> up[p].mode, err |-> err, step |-> up[p].step,
                                        rb |-> up[p].rb, nex |-> up[p].nex, pre |-> up[p].pre,
                                        manifest |-> up[p].manifest,
                                        archive |-> up[p].archive]]]

\* Where PerformUpdate goes when a step after createRollback failed
ReturnsWithoutRollback(step) == IF step = "download" THEN "return" ELSE "back_remove"
NextPcAfterFailure(step) == "back_remove"

Fail(p, step) ==
    up' = [up EXCEPT ![p].step = step, ![p].pc = NextPcAfterFailure(step)]

ErrorFor(step) ==
    IF step = "backup" THEN ErrBackup
    ELSE IF step = "download" THEN ErrDownload
    ELSE IF step = "verify" THEN ErrChecksum
    ELSE ErrExtraction

\* download, ok := manifest.Downloads[string(u.Platform)]
AnyDownload(manifest, platform) == TRUE
HasDownload(manifest, platform) == platform \in DOMAIN manifest.downloads

\* Whether an invocation may start while others run on the same USB root:
\* neither operation takes a lock file or looks for a running update.
MayStartAlone(p) == \A q \in DOMAIN up \ {p} : up[q].pc = "idle"
MayStart(p) == TRUE

PerformUpdate(p, manifest, net) ==
    /\ up[p].exists /\ up[p].pc = "idle"
    /\ MayStart(p)
    /\ IF ~HasDownload(manifest, up[p].platform)
       THEN up' = [up EXCEPT ![p].ret =
                      [NoURet EXCEPT !.op = "PerformUpdate", !.err = ErrNoDownload,
                                     !.pre = disk, !.manifest = manifest]]
       ELSE up' = [up EXCEPT ![p].pc = "rb_remove", ![p].mode = "PerformUpdate",
                             ![p].manifest = manifest, ![p].net = net, ![p].pre = disk,
                             ![p].ret = NoURet]
    /\ UNCHANGED <<disk, ufaults, ucrashes, vaultVars, procVars>>

PerformOfflineUpdate(p, archive) ==
    /\ up[p].exists /\ up[p].pc = "idle"
    /\ MayStart(p)
    /\ up' = [up EXCEPT ![p].pc = "rb_remove", ![p].mode = "PerformOfflineUpdate",
                        ![p].archive = archive, ![p].pre = disk, ![p].ret = NoURet]
    /\ UNCHANGED <<disk, ufaults, ucrashes, vaultVars, procVars>>

\* Where the operation goes when createRollback returned nil, and when it
\* returned an error
AfterBackup(mode) == IF mode = "PerformUpdate" THEN "download" ELSE "ex_open"
ProceedsAfterBackupFailure(mode) == AfterBackup(mode)
AfterBackupFailure(mode) == "return"

\* createRollback: os.RemoveAll(rollbackDir), then copyDir's Walk starts
RbRemove(p) ==
    /\ up[p].pc = "rb_remove"
    /\ disk' = RemoveAll(disk, rollbackDir)
    /\ IF DirExists(disk, binDir)
       THEN up' = [up EXCEPT ![p].pc = "rb_copy", ![p].todo = Walk(disk, binDir)]
       ELSE up' = [up EXCEPT ![p].pc = AfterBackupFailure(up[p].mode), ![p].step = "backup"]
    /\ UNCHANGED <<ufaults, ucrashes, vaultVars, procVars>>


\* copyDir's callback for the next visited path
RbCopy(p) ==
    /\ up[p].pc = "rb_copy"
    /\ up[p].todo # <<>>
    /\ LET path == Head(up[p].todo)
       IN IF CopyItemOk(disk, binDir, rollbackDir, path)
          THEN /\ disk' = CopyItem(disk, binDir, rollbackDir, path)
               /\ up' = [up EXCEPT ![p].todo = Tail(@),
                                   ![p].pc = IF Tail(up[p].todo) = <<>>
                                             THEN AfterBackup(up[p].mode) ELSE "rb_copy"]
          ELSE /\ disk' = disk
               /\ up' = [up EXCEPT ![p].pc = AfterBackupFailure(up[p].mode), ![p].step = "backup"]
    /\ UNCHANGED <<ufaults, ucrashes, vaultVars, procVars>>

downloadUpdate(p) ==
    /\ up[p].pc = "download"
    /\ Returns(up[p].net.outcome)
    /\ IF up[p].net.outcome = "ok"
       THEN up' = [up EXCEPT ![p].archive = up[p].net.archive, ![p].pc = "verify"]
       ELSE Fail(p, "download")
    /\ UNCHANGED <<disk, ufaults, ucrashes, vaultVars, procVars>>

verifyChecksum(p) ==
    /\ up[p].pc = "verify"
    /\ IF VerifyOk(up[p].archive, up[p].manifest.downloads[up[p].platform].sha256)
       THEN Goto(p, "ex_open")
       ELSE Fail(p, "verify")
    /\ UNCHANGED <<disk, ufaults, ucrashes, vaultVars, procVars>>

AfterExtractWritesVersion(mode) == "version"
AfterExtract(mode) == IF mode = "PerformUpdate" THEN "version" ELSE "cleanup"

\* extractUpdate: zip.OpenReader
ExtractOpen(p) ==
    /\ up[p].pc = "ex_open"
    /\ IF ~up[p].archive.zip THEN Fail(p, "extract")
       ELSE up' = [up EXCEPT ![p].todo = up[p].archive.entries,
                             ![p].pc = IF up[p].archive.entries = <<>>
                                       THEN AfterExtract(up[p].mode) ELSE "extract"]
    /\ UNCHANGED <<disk, ufaults, ucrashes, vaultVars, procVars>>

\* extractUpdate: the loop body for the next entry
ExtractNext(p) ==
    /\ up[p].pc = "extract"
    /\ up[p].todo # <<>>
    /\ LET e == Head(up[p].todo)
       IN /\ disk' = ExtractEntry(disk, e)
          /\ IF ExtractEntryOk(disk, e)
             THEN up' = [up EXCEPT ![p].todo = Tail(@),
                                   ![p].nex = @ + (IF Extracts(e) THEN 1 ELSE 0),
                                   ![p].pc = IF Tail(up[p].todo) = <<>>
                                             THEN AfterExtract(up[p].mode) ELSE "extract"]
             ELSE up' = [up EXCEPT ![p].nex = @ + 1, ![p].step = "extract",
                                   ![p].pc = NextPcAfterFailure("extract")]
    /\ UNCHANGED <<ufaults, ucrashes, vaultVars, procVars>>

writeVersionFile(p) ==
    /\ up[p].pc = "version"
    /\ disk' = [disk EXCEPT !.marker = MarkerOf(up[p].manifest.version)]
    /\ Goto(p, "cleanup")
    /\ UNCHANGED <<ufaults, ucrashes, vaultVars, procVars>>

KeepRollback(d) == d
cleanupRollbackDisk(d) == RemoveAll(d, rollbackDir)

cleanupRollback(p) ==
    /\ up[p].pc = "cleanup"
    /\ disk' = cleanupRollbackDisk(disk)
    /\ Goto(p, "cache")
    /\ UNCHANGED <<ufaults, ucrashes, vaultVars, procVars>>

\* clearCache, and the return of nil
clearCache(p) ==
    /\ up[p].pc = "cache"
    /\ disk' = MkdirAll(RemoveAll(disk, cacheDir), cacheDir)
    /\ Return(p, ErrNone)
    /\ UNCHANGED <<ufaults, ucrashes, vaultVars, procVars>>

\* rollback run to its end on disk d without an I/O failure: the disk
\* afterwards and the error it returns
ErrNoRollback == "no rollback available"
rollbackWithoutStat(d) ==
    LET d1 == RemoveAll(d, binDir)
    IN IF RenameOk(d1, rollbackDir, binDir)
       THEN [disk |-> RenameDir(d1, rollbackDir, binDir), err |-> ErrNone]
       ELSE [disk |-> d1, err |-> "rename failed"]
rollback(d) ==
    IF ~DirExists(d, rollbackDir) THEN [disk |-> d, err |-> ErrNoRollback]
    ELSE LET d1 == RemoveAll(d, binDir)
         IN IF RenameOk(d1, rollbackDir, binDir)
            THEN [disk |-> RenameDir(d1, rollbackDir, binDir), err |-> ErrNone]
            ELSE [disk |-> d1, err |-> "rename failed"]

\* rollback: os.Stat(rollbackDir), os.RemoveAll(binDir)
RollbackRemove(p) ==
    /\ up[p].pc = "back_remove"
    /\ IF ~DirExists(disk, rollbackDir)
       THEN /\ disk' = disk
            /\ up' = [up EXCEPT ![p].rb = "no rollback available", ![p].pc = "return"]
       ELSE /\ disk' = RemoveAll(disk, binDir)
            /\ Goto(p, "back_rename")
    /\ UNCHANGED <<ufaults, ucrashes, vaultVars, procVars>>

\* rollback: os.Rename(rollbackDir, binDir); its result is dropped by the caller
RollbackRename(p) ==
    /\ up[p].pc = "back_rename"
    /\ IF RenameOk(disk, rollbackDir, binDir)
       THEN /\ disk' = RenameDir(disk, rollbackDir, binDir)
            /\ up' = [up EXCEPT ![p].rb = "restored", ![p].pc = "return"]
       ELSE /\ disk' = disk
            /\ up' = [up EXCEPT ![p].rb = "rename failed", ![p].pc = "return"]
    /\ UNCHANGED <<ufaults, ucrashes, vaultVars, procVars>>

\* The error return of PerformUpdate / PerformOfflineUpdate
ReturnError(p) ==
    /\ up[p].pc = "return"
    /\ Return(p, ErrorFor(up[p].step))
    /\ UNCHANGED <<disk, ufaults, ucrashes, vaultVars, procVars>>

\* I/O failures -------------------------------------------------------------

\* copyFile fails after it opened (and truncated) the destination
RbCopyFails(p) ==
    /\ up[p].pc = "rb_copy"
    /\ up[p].todo # <<>>
    /\ ufaults < MaxFaults
    /\ LET path == Head(up[p].todo)
       IN /\ path \in DOMAIN disk.files
          /\ Dir(Reprefix(path, binDir, rollbackDir)) \in disk.dirs
          /\ disk' = WriteFileAt(disk, Reprefix(path, binDir, rollbackDir), "truncated")
    /\ up' = [up EXCEPT ![p].pc = AfterBackupFailure(up[p].mode), ![p].step = "backup"]
    /\ ufaults' = ufaults + 1
    /\ UNCHANGED <<ucrashes, vaultVars, procVars>>

\* extractFile fails in io.Copy
ExtractFails(p) ==
    /\ up[p].pc = "extract"
    /\ up[p].todo # <<>>
    /\ ufaults < MaxFaults
    /\ LET e == Head(up[p].todo)
       IN /\ Extracts(e) /\ ~e.dir
          /\ disk' = ExtractEntry(disk, [e EXCEPT !.corrupt = TRUE])
    /\ up' = [up EXCEPT ![p].nex = @ + 1, ![p].step = "extract",
                        ![p].pc = NextPcAfterFailure("extract")]
    /\ ufaults' = ufaults + 1
    /\ UNCHANGED <<ucrashes, vaultVars, procVars>>

\* Where PerformUpdate goes when writeVersionFile returned an error: it prints
\* a warning and goes on
RollsBackAfterVersionFailure(mode) == "back_remove"
AfterVersionFailure(mode) == "cleanup"

\* os.WriteFile of the version marker fails, before or after it truncated it
writeVersionFileFails(p, truncated) ==
    /\ up[p].pc = "version"
    /\ ufaults < MaxFaults
    /\ disk' = [disk EXCEPT !.marker = IF truncated THEN GarbageMarker ELSE @]
    /\ Goto(p, AfterVersionFailure(up[p].mode))
    /\ ufaults' = ufaults + 1
    /\ UNCHANGED <<ucrashes, vaultVars, procVars>>

cleanupRollbackFails(p) ==
    /\ up[p].pc = "cleanup"
    /\ ufaults < MaxFaults
    /\ disk' = RemoveNothing(disk, rollbackDir)
    /\ Goto(p, "cache")
    /\ ufaults' = ufaults + 1
    /\ UNCHANGED <<ucrashes, vaultVars, procVars>>

\* rollback's os.RemoveAll(binDir) fails; its result is not looked at
RollbackRemoveFails(p) ==
    /\ up[p].pc = "back_remove"
    /\ DirExists(disk, rollbackDir)
    /\ ufaults < MaxFaults
    /\ disk' = RemoveNothing(disk, binDir)
    /\ Goto(p, "back_rename")
    /\ ufaults' = ufaults + 1
    /\ UNCHANGED <<ucrashes, vaultVars, procVars>>

RollbackRenameFails(p) ==
    /\ up[p].pc = "back_rename"
    /\ ufaults < MaxFaults
    /\ up' = [up EXCEPT ![p].rb = "rename failed", ![p].pc = "return"]
    /\ ufaults' = ufaults + 1
    /\ UNCHANGED <<disk, ucrashes, vaultVars, procVars>>

\* The process dies (or the device is pulled) inside an update operation: the
\* disk stays as the finished steps left it.
UpdateCrash(p) ==
    /\ up[p].pc # "idle"
    /\ ucrashes < MaxCrashes
    /\ up' = [up EXCEPT ![p] = NoUpdater]
    /\ ucrashes' = ucrashes + 1
    /\ UNCHANGED <<disk, ufaults, vaultVars, procVars>>

UpdInit ==
    /\ disk = InitDisk
    /\ up = [p \in UProcs |-> NoUpdater]
    /\ ufaults = 0
    /\ ucrashes = 0

UpdNext ==
    \/ \E p \in UProcs, key \in GoosKeys : NewUpdater(p, key)
    \/ \E p \in UProcs, m \in UpdManifests, net \in Nets : PerformUpdate(p, m, net)
    \/ \E p \in UProcs, a \in Archives : PerformOfflineUpdate(p, a)
    \/ \E p \in UProcs : RbRemove(p)
    \/ \E p \in UProcs : RbCopy(p)
    \/ \E p \in UProcs : downloadUpdate(p)
    \/ \E p \in UProcs : verifyChecksum(p)
    \/ \E p \in UProcs : ExtractOpen(p)
    \/ \E p \in UProcs : ExtractNext(p)
    \/ \E p \in UProcs : writeVersionFile(p)
    \/ \E p \in UProcs : cleanupRollback(p)
    \/ \E p \in UProcs : clearCache(p)
    \/ \E p \in UProcs : RollbackRemove(p)
    \/ \E p \in UProcs : RollbackRename(p)
    \/ \E p \in UProcs : ReturnError(p)

\* The same operations on fewer inputs, with I/O failures and crashes.
FaultManifests ==
    {ManifestOf(<<1, 3, 0>>, {LinuxAMD64}, HexOf(a.id, FALSE)) : a \in {GoodArchive, CorruptArchive}}
FaultNets ==
    {[outcome |-> "ok", archive |-> a] : a \in {GoodArchive, CorruptArchive}}
    \cup {[outcome |-> "neterr", archive |-> NoArchive]}

UpdFaultNext ==
    \/ \E p \in UProcs : NewUpdater(p, LinuxAMD64)
    \/ \E p \in UProcs, m \in FaultManifests, net \in FaultNets : PerformUpdate(p, m, net)
    \/ \E p \in UProcs, a \in {GoodArchive, NotAnArchive} : PerformOfflineUpdate(p, a)
    \/ \E p \in UProcs : RbRemove(p)
    \/ \E p \in UProcs : RbCopy(p)
    \/ \E p \in UProcs : downloadUpdate(p)
    \/ \E p \in UProcs : verifyChecksum(p)
    \/ \E p \in UProcs : ExtractOpen(p)
    \/ \E p \in UProcs : ExtractNext(p)
    \/ \E p \in UProcs : writeVersionFile(p)
    \/ \E p \in UProcs : cleanupRollback(p)
    \/ \E p \in UProcs : clearCache(p)
    \/ \E p \in UProcs : RollbackRemove(p)
    \/ \E p \in UProcs : RollbackRename(p)
    \/ \E p \in UProcs : ReturnError(p)
    \/ \E p \in UProcs : RbCopyFails(p)
    \/ \E p \in UProcs : ExtractFails(p)
    \/ \E p \in UProcs, t \in BOOLEAN : writeVersionFileFails(p, t)
    \/ \E p \in UProcs : cleanupRollbackFails(p)
    \/ \E p \in UProcs : RollbackRemoveFails(p)
    \/ \E p \in UProcs : RollbackRenameFails(p)
    \/ \E p \in UProcs : UpdateCrash(p)

\* Lookups and deletions on a vault that an earlier run of the program left on
\* disk: created with "pw1" at time 0, entry a stored at time 1 and entry b at
\* time 2. The handle of this run is not opened yet.
StockedHandle ==
    SetEntryStaged(
      SetEntryStaged(CreatedHandle("pw1", RandBytes(saltSize, 1), 0),
                     NewEntry("a", "oauth", "claudeai", JsonDoc("tokenA"), NilMeta), 1),
      NewEntry("b", "apikey", "console", JsonDoc("keyB"), MetaOf([x \in {"env"} |-> "prod"])), 2)

StockedVaultInit ==
    /\ vfile = FileOf(SaveBytes(StockedHandle, RandBytes(nonceSize, 2)))
    /\ vtmp = NoFile
    /\ v = NoHandle
    /\ vpc = "idle"
    /\ vop = NoOp
    /\ ret = NoRet
    /\ clock = 2
    /\ faults = 0
    /\ crashes = 0
    /\ rt = RtOff
    /\ createdPw = "pw1"

DeleteNext ==
    \/ Open
    \/ \E pw \in Passwords : Unlock(pw)
    \/ Lock
    \/ \E id \in EntryIds : GetEntry(id)
    \/ ListEntries
    \/ \E e \in TamperEntries : SetEntry(e, 2)
    \/ \E id \in EntryIds : DeleteEntry(id, 1)
    \/ SaveWriteFile
    \/ SaveRename

\* Two invocations of the updater on the same USB root (two launchers started
\* from the same stick, or a script and the launcher), no I/O failures. Each
\* process builds its Updater once and runs one operation.
UProcs2 == {1, 2}

TwoInit ==
    /\ disk = InitDisk
    /\ up = [p \in UProcs2 |-> NoUpdater]
    /\ ufaults = 0
    /\ ucrashes = 0

NewUpdaterOnce(p) == ~up[p].exists /\ NewUpdater(p, LinuxAMD64)
PerformOfflineUpdateOnce(p, a) == up[p].ret = NoURet /\ PerformOfflineUpdate(p, a)

TwoNext ==
    \/ \E p \in UProcs2 : NewUpdaterOnce(p)
    \/ \E p \in UProcs2, a \in {GoodArchive, CorruptArchive} : PerformOfflineUpdateOnce(p, a)
    \/ \E p \in UProcs2 : RbRemove(p)
    \/ \E p \in UProcs2 : RbCopy(p)
    \/ \E p \in UProcs2 : ExtractOpen(p)
    \/ \E p \in UProcs2 : ExtractNext(p)
    \/ \E p \in UProcs2 : cleanupRollback(p)
    \/ \E p \in UProcs2 : clearCache(p)
    \/ \E p \in UProcs2 : RollbackRemove(p)
    \/ \E p \in UProcs2 : RollbackRename(p)
    \/ \E p \in UProcs2 : ReturnError(p)

\* The update scripts, update.sh and update.bat, run to the end on the same USB
\* root: the online update after the user confirmed it. up[p] holds the
\* position of the script.
ScriptNames == {"update.sh", "update.bat"}
IsScript(p) == up[p].mode \in ScriptNames

\* Where the backup of bin goes: cp -r bin .rollback, xcopy bin .rollback\bin
ScriptSnapshot(script) == IF script = "update.sh" THEN rollbackDir ELSE rollbackDir \o binDir

\* cp -r / xcopy /e of a directory to a path that does not exist
CopyTree(d, from, to) ==
    LET src == {q \in DOMAIN d.files : HasPrefix(q, from)}
        new == {Reprefix(q, from, to) : q \in src}
    IN [d EXCEPT !.files = [q \in DOMAIN d.files \cup new |->
                              IF q \in new THEN d.files[Reprefix(q, to, from)] ELSE d.files[q]],
                 !.dirs = @ \cup Ancestors(to)
                            \cup {Reprefix(q, from, to) : q \in {r \in d.dirs : HasPrefix(r, from)}}]

\* unzip -o ... bin/* *.sh *.bat writes the members its patterns match;
\* Expand-Archive -Force writes every member. Neither result is looked at.
ScriptWrites(script, e) == script = "update.bat" \/ Extracts(e)
RECURSIVE UnzipAll(_, _, _)
UnzipAll(d, script, entries) ==
    IF entries = <<>> THEN d
    ELSE LET e == Head(entries)
             d1 == IF ~ScriptWrites(script, e) THEN d
                   ELSE IF e.dir THEN MkdirAll(d, DestPath(e))
                   ELSE WriteFileAt(MkdirAll(d, Dir(DestPath(e))), DestPath(e),
                                    IF e.corrupt THEN "truncated" ELSE e.data)
         IN UnzipAll(d1, script, Tail(entries))

ErrExit1 == "exit 1"

ScriptStart(p, script, manifest, net) ==
    /\ up[p].pc = "idle"
    /\ up' = [up EXCEPT ![p].pc = "sc_backup", ![p].mode = script, ![p].manifest = manifest,
                        ![p].net = net, ![p].pre = disk, ![p].ret = NoURet]
    /\ UNCHANGED <<disk, ufaults, ucrashes, vaultVars, procVars>>

\* rm -rf .rollback; cp -r bin .rollback (set -e ends the script when cp fails)
\* rd /s /q .rollback; xcopy /e /i /q bin .rollback\bin (its result is not tested)
ScriptBackup(p) ==
    /\ up[p].pc = "sc_backup" /\ IsScript(p)
    /\ LET d1 == RemoveAll(disk, rollbackDir)
       IN IF DirExists(d1, binDir)
          THEN /\ disk' = CopyTree(d1, binDir, ScriptSnapshot(up[p].mode))
               /\ Goto(p, "sc_download")
          ELSE /\ disk' = d1
               /\ IF up[p].mode = "update.sh"
                  THEN up' = [up EXCEPT ![p].step = "backup", ![p].pc = "return"]
                  ELSE Goto(p, "sc_download")
    /\ UNCHANGED <<ufaults, ucrashes, vaultVars, procVars>>

\* curl -fL url -o tmp; DownloadFile(url, zip) and `if exist zip`
ScriptDownload(p) ==
    /\ up[p].pc = "sc_download" /\ IsScript(p)
    /\ Returns(up[p].net.outcome)
    /\ IF up[p].net.outcome = "ok"
       THEN up' = [up EXCEPT ![p].archive = up[p].net.archive, ![p].pc = "sc_extract"]
       ELSE up' = [up EXCEPT ![p].step = "download", ![p].pc = "sc_restore"]
    /\ UNCHANGED <<disk, ufaults, ucrashes, vaultVars, procVars>>

\* "Download failed. Restoring backup...": rm -rf bin; mv snapshot bin; exit 1
ScriptRestore(p) ==
    /\ up[p].pc = "sc_restore" /\ IsScript(p)
    /\ LET d1 == RemoveAll(disk, binDir)
           d2 == IF RenameOk(d1, ScriptSnapshot(up[p].mode), binDir)
                 THEN RenameDir(d1, ScriptSnapshot(up[p].mode), binDir) ELSE d1
       IN disk' = IF up[p].mode = "update.bat" THEN RemoveAll(d2, rollbackDir) ELSE d2
    /\ up' = [up EXCEPT ![p].rb = "restored", ![p].pc = "return"]
    /\ UNCHANGED <<ufaults, ucrashes, vaultVars, procVars>>

\* unzip ... || true; Expand-Archive ... -Force
ScriptExtract(p) ==
    /\ up[p].pc = "sc_extract" /\ IsScript(p)
    /\ disk' = IF up[p].archive.zip THEN UnzipAll(disk, up[p].mode, up[p].archive.entries)
               ELSE disk
    /\ up' = [up EXCEPT ![p].nex = IF up[p].archive.zip THEN Len(up[p].archive.entries) ELSE 0,
                        ![p].pc = "sc_finish"]
    /\ UNCHANGED <<ufaults, ucrashes, vaultVars, procVars>>

\* The version file is written, the snapshot and the cache are removed, the
\* cache directory is made again, "Update complete!"
ScriptFinish(p) ==
    /\ up[p].pc = "sc_finish" /\ IsScript(p)
    /\ disk' = MkdirAll(RemoveAll(RemoveAll([disk EXCEPT !.marker = MarkerOf(up[p].manifest.version)],
                                            rollbackDir), cacheDir), cacheDir)
    /\ Return(p, ErrNone)
    /\ UNCHANGED <<ufaults, ucrashes, vaultVars, procVars>>

ScriptExit(p) ==
    /\ up[p].pc = "return" /\ IsScript(p)
    /\ Return(p, ErrExit1)
    /\ UNCHANGED <<disk, ufaults, ucrashes, vaultVars, procVars>>

ScriptNets ==
    {[outcome |-> "ok", archive |-> a] : a \in {GoodArchive, NotAnArchive}}
    \cup {[outcome |-> "neterr", archive |-> NoArchive]}

ScriptNext ==
    \/ \E p \in UProcs, sc \in ScriptNames, m \in FaultManifests, net \in ScriptNets :
          ScriptStart(p, sc, m, net)
    \/ \E p \in UProcs : ScriptBackup(p)
    \/ \E p \in UProcs : ScriptDownload(p)
    \/ \E p \in UProcs : ScriptRestore(p)
    \/ \E p \in UProcs : ScriptExtract(p)
    \/ \E p \in UProcs : ScriptFinish(p)
    \/ \E p \in UProcs : ScriptExit(p)

\* The network operations against servers that answer, fail, or hang. The
\* goroutine that runs an operation takes its next step whenever it has one.
HangNets == {[outcome |-> o, archive |-> NoArchive] : o \in HungServers}

NetNext ==
    \/ \E p \in UProcs : NewUpdater(p, LinuxAMD64)
    \/ \E p \in UProcs, resp \in CheckResponses \cup HungServers :
          CheckForUpdate(p, resp, FormatVersion(<<1, 3, 0>>))
    \/ \E p \in UProcs, m \in FaultManifests, net \in FaultNets \cup HangNets :
          PerformUpdate(p, m, net)
    \/ \E p \in UProcs : RbRemove(p)
    \/ \E p \in UProcs : RbCopy(p)
    \/ \E p \in UProcs : downloadUpdate(p)
    \/ \E p \in UProcs : verifyChecksum(p)
    \/ \E p \in UProcs : ExtractOpen(p)
    \/ \E p \in UProcs : ExtractNext(p)
    \/ \E p \in UProcs : writeVersionFile(p)
    \/ \E p \in UProcs : cleanupRollback(p)
    \/ \E p \in UProcs : clearCache(p)
    \/ \E p \in UProcs : RollbackRemove(p)
    \/ \E p \in UProcs : RollbackRename(p)
    \/ \E p \in UProcs : ReturnError(p)

\* Version checks: the marker is any version of up to MaxParts components, is
\* absent, or is not JSON.
MaxParts == 3
CompValues == {0, 9, 10}
VersionTuples == UNION {[1..n -> CompValues] : n \in 1..MaxParts}
Markers == {MarkerOf(FormatVersion(t)) : t \in VersionTuples} \cup {NoMarker, GarbageMarker}

VerInit ==
    /\ \E m \in Markers : disk = [InitDisk EXCEPT !.marker = m]
    /\ up = [p \in UProcs |-> NoUpdater]
    /\ ufaults = 0
    /\ ucrashes = 0

VerNext ==
    \/ \E p \in UProcs, key \in GoosKeys : NewUpdater(p, key)
    \/ \E p \in UProcs, t \in VersionTuples : CheckForUpdate(p, "ok", FormatVersion(t))
    \/ \E p \in UProcs, resp \in CheckResponses \ {"ok"} : CheckForUpdate(p, resp, <<>>)

----------------------------------------------------------------------------
(* The launcher: Run, runFirstTimeSetup, runNormalLaunch, startSession.    *)
(* Each call into the vault is one step here and meets no I/O failure.     *)

minPasswordLength == 12
MaxRuns == 2

\* What the user types at a password prompt, with len(password)
TypedPasswords == {"pw1", "pw2", "short"}
PasswordLen(pw) == IF pw = "short" THEN 5 ELSE IF pw = "pw1" THEN 12 ELSE 16

NoApp == [pc |-> "idle", runs |-> 0, pw |-> "", used |-> FALSE, how |-> "", err |-> ErrNone]

\* Run returns err; the process ends with the handle as it is
AppReturn(err) == app' = [app EXCEPT !.pc = "idle", !.how = "return", !.err = err]

\* A new process: Run up to vault.Exists. detectUSBRoot, platform.Current or
\* config.Load may fail first.
Run(ok) ==
    /\ app.pc = "idle"
    /\ app.runs < MaxRuns
    /\ vpc = "idle"
    /\ v' = NoHandle
    /\ app' = IF ~ok
               THEN [NoApp EXCEPT !.runs = app.runs + 1, !.how = "return",
                                  !.err = "failed to load config"]
               ELSE [NoApp EXCEPT !.runs = app.runs + 1,
                                  !.pc = IF vfile.exists THEN "open" ELSE "password"]
    /\ ret' = NoRet
    /\ rt' = RtOff
    /\ UNCHANGED <<vfile, vtmp, vpc, vop, clock, faults, crashes, createdPw, updVars, mu, th>>

\* runFirstTimeSetup: the two password prompts
FirstPassword(password, confirm) ==
    /\ app.pc = "password"
    /\ IF PasswordLen(password) < minPasswordLength
         THEN AppReturn("password must be at least 12 characters")
       ELSE IF password # confirm THEN AppReturn("passwords do not match")
       ELSE app' = [app EXCEPT !.pc = "create", !.pw = password]
    /\ UNCHANGED <<vaultVars, updVars, mu, th>>

\* runFirstTimeSetup: vault.Create(vaultPath, password)
LaunchCreate ==
    /\ app.pc = "create"
    /\ clock < MaxClock
    /\ clock' = clock + 1
    /\ LET h == CreatedHandle(app.pw, RandBytes(saltSize, 1), clock + 1)
       IN /\ v' = h
          /\ vfile' = FileOf(SaveBytes(h, RandBytes(nonceSize, 1)))
    /\ ret' = Ret("Create", ErrNone, app.pw, TRUE)
    /\ createdPw' = app.pw
    /\ rt' = RtOff
    /\ app' = [app EXCEPT !.pc = "choice", !.used = TRUE]
    /\ UNCHANGED <<vtmp, vpc, vop, faults, crashes, updVars, mu, th>>

\* Authenticator.SetAPIKey(provider, apiKey): the entry it stores
APIKeyEntry(provider, apiKey) ==
    NewEntry("auth/" \o provider, "apikey", provider, JsonDoc(apiKey), NilMeta)

\* runFirstTimeSetup: the authentication choice; "2" and "3" are setupAPIKey
\* for the console and the bedrock provider, anything outside 1..4 is refused
ChoiceProvider(choice) == IF choice = "2" THEN "console" ELSE "bedrock"
LaunchChoice(choice) ==
    /\ app.pc = "choice"
    /\ IF choice \in {"2", "3"}
       THEN /\ clock < MaxClock
            /\ clock' = clock + 1
            /\ LET entry == APIKeyEntry(ChoiceProvider(choice), "sk-key")
                   h == SetEntryStaged(v, entry, clock + 1)
               IN /\ v' = h
                  /\ vfile' = FileOf(SaveBytes(h, RandBytes(nonceSize, 2)))
                  /\ ret' = Ret("SetEntry", ErrNone, entry.ID, TRUE)
            /\ app' = [app EXCEPT !.pc = "session"]
       ELSE /\ AppReturn("invalid choice")
            /\ UNCHANGED <<v, vfile, clock, ret>>
    /\ rt' = RtOff
    /\ UNCHANGED <<vtmp, vpc, vop, faults, crashes, createdPw, updVars, mu, th>>

\* runNormalLaunch: vault.Open(vaultPath)
LaunchOpen ==
    /\ app.pc = "open"
    /\ IF vfile.exists
       THEN /\ v' = OpenedHandle
            /\ ret' = Ret("Open", ErrNone, "", FALSE)
            /\ app' = [app EXCEPT !.pc = "unlock"]
       ELSE /\ v' = NoHandle
            /\ ret' = Ret("Open", ErrVaultNotFound, "", FALSE)
            /\ AppReturn("failed to open vault")
    /\ rt' = RtOff
    /\ UNCHANGED <<vfile, vtmp, vpc, vop, clock, faults, crashes, createdPw, updVars, mu, th>>

\* runNormalLaunch: the password prompt and v.Unlock(password)
LaunchUnlock(password) ==
    /\ app.pc = "unlock"
    /\ LET r == UnlockResult(v, vfile, password)
       IN /\ v' = r.v
          /\ ret' = Ret("Unlock", r.err, password, v.unlocked)
          /\ IF r.err = ErrNone
             THEN app' = [app EXCEPT !.pc = "session", !.pw = password, !.used = TRUE]
             ELSE AppReturn(IF r.err = ErrWrongPassword THEN "incorrect password"
                            ELSE "failed to unlock vault")
    /\ rt' = RtOff
    /\ UNCHANGED <<vfile, vtmp, vpc, vop, clock, faults, crashes, createdPw, updVars, mu, th>>

\* startSession and launchClaudeCode: ListProviders, GetCredential, cmd.Run()
LaunchSession(cmdErr) ==
    /\ app.pc = "session"
    /\ IF ListEntriesErr(v) # ErrNone \/ DOMAIN v.data.Entries = {}
       THEN AppReturn("no authentication configured")
       ELSE AppReturn(cmdErr)
    /\ UNCHANGED <<vaultVars, updVars, mu, th>>

\* SIGINT: no handler is installed, the process ends where it is
Interrupt ==
    /\ app.pc # "idle"
    /\ app' = [app EXCEPT !.pc = "idle", !.how = "interrupt", !.err = ErrNone]
    /\ UNCHANGED <<vaultVars, updVars, mu, th>>

LaunchInit == app = NoApp

LaunchNext ==
    \/ \E ok \in BOOLEAN : Run(ok)
    \/ \E pw \in TypedPasswords, confirm \in TypedPasswords : FirstPassword(pw, confirm)
    \/ LaunchCreate
    \/ \E choice \in {"2", "3", "9"} : LaunchChoice(choice)
    \/ LaunchOpen
    \/ \E pw \in Passwords : LaunchUnlock(pw)
    \/ \E cmdErr \in {ErrNone, "exit status 1"} : LaunchSession(cmdErr)
    \/ Interrupt

----------------------------------------------------------------------------
(* Goroutines of one process sharing one Vault handle. Each operation is   *)
(* the steps of its code between v.mu.Lock / RLock and the deferred        *)
(* Unlock / RUnlock; save is its marshal-and-seal, its WriteFile and its   *)
(* Rename.                                                                 *)

Threads == {1, 2}
WriteOps == {"SetEntry", "DeleteEntry", "Unlock", "Lock"}
ReadOps == {"GetEntry", "ListEntries"}

NoMu == [w |-> 0, r |-> {}]
NoThread == [pc |-> "idle", op |-> "", arg |-> "", file |-> <<>>, err |-> ErrNone,
             done |-> "", contended |-> FALSE]

\* sync.RWMutex: Lock needs no holder at all, RLock no writer
LockAnyway(m) == TRUE
CanLock(m) == m.w = 0 /\ m.r = {}
CanRLock(m) == m.w = 0

\* The entry a goroutine stores and the identifier it asks for
ThreadEntry(t) ==
    IF t = 1 THEN NewEntry("a", "oauth", "claudeai", JsonDoc("tokenA"), NilMeta)
    ELSE NewEntry("b", "apikey", "console", JsonDoc("keyB"), NilMeta)
ThreadId(t) == ThreadEntry(t).ID

InBody(t) == th[t].pc \notin {"idle", "wait"}

\* A goroutine calls an operation of the handle
Call(t, op, arg) ==
    /\ th[t].pc = "idle"
    /\ th' = [th EXCEPT ![t] = [NoThread EXCEPT !.pc = "wait", !.op = op, !.arg = arg,
                                                !.contended = (mu # NoMu)]]
    /\ UNCHANGED <<vaultVars, updVars, app, mu>>

\* v.mu.Lock() / v.mu.RLock() returns
Acquire(t) ==
    /\ th[t].pc = "wait"
    /\ IF th[t].op \in WriteOps
       THEN /\ CanLock(mu)
            /\ mu' = [mu EXCEPT !.w = t]
       ELSE /\ CanRLock(mu)
            /\ mu' = [mu EXCEPT !.r = @ \cup {t}]
    /\ th' = [th EXCEPT ![t].pc = "body"]
    /\ UNCHANGED <<vaultVars, updVars, app>>

\* SetEntry / DeleteEntry up to the call of save
BodyMutate(t) ==
    /\ th[t].pc = "body"
    /\ th[t].op \in {"SetEntry", "DeleteEntry"}
    /\ LET err == IF th[t].op = "SetEntry" THEN SetEntryErr(v)
                  ELSE DeleteEntryErr(v, th[t].arg)
       IN IF err # ErrNone
          THEN /\ th' = [th EXCEPT ![t].pc = "release", ![t].err = err]
               /\ UNCHANGED <<v, clock>>
          ELSE /\ clock < MaxClock
               /\ clock' = clock + 1
               /\ v' = IF th[t].op = "SetEntry"
                        THEN SetEntryStaged(v, ThreadEntry(t), clock + 1)
                        ELSE DeleteEntryStaged(v, th[t].arg, clock + 1)
               /\ th' = [th EXCEPT ![t].pc = "marshal"]
    /\ UNCHANGED <<vfile, vtmp, vpc, vop, ret, faults, crashes, rt, createdPw, updVars, app, mu>>

\* save: the unlocked test, json.Marshal, the nonce, gcm.Seal, the file bytes
BodyMarshal(t) ==
    /\ th[t].pc = "marshal"
    /\ IF ~v.unlocked
       THEN th' = [th EXCEPT ![t].pc = "release", ![t].err = ErrVaultLocked]
       ELSE IF ~MarshalOk(v.data)
       THEN th' = [th EXCEPT ![t].pc = "release", ![t].err = ErrSerialize]
       ELSE th' = [th EXCEPT ![t].pc = "write",
                             ![t].file = SaveBytes(v, RandBytes(nonceSize, 2))]
    /\ UNCHANGED <<vaultVars, updVars, app, mu>>

\* save: os.WriteFile(tmpPath, file, 0600)
BodyWrite(t) ==
    /\ th[t].pc = "write"
    /\ LET d == WriteTmp(Disk, FileOf(th[t].file))
       IN vfile' = d.file /\ vtmp' = d.tmp
    /\ th' = [th EXCEPT ![t].pc = "rename"]
    /\ UNCHANGED <<v, vpc, vop, ret, clock, faults, crashes, rt, createdPw, updVars, app, mu>>

\* save: os.Rename(tmpPath, v.path); without a temporary file it fails
BodyRename(t) ==
    /\ th[t].pc = "rename"
    /\ IF vtmp.exists
       THEN /\ LET d == RenameTmp(Disk)
               IN vfile' = d.file /\ vtmp' = d.tmp
            /\ th' = [th EXCEPT ![t].pc = "release"]
       ELSE /\ UNCHANGED <<vfile, vtmp>>
            /\ th' = [th EXCEPT ![t].pc = "release", ![t].err = ErrFinalizeVault]
    /\ UNCHANGED <<v, vpc, vop, ret, clock, faults, crashes, rt, createdPw, updVars, app, mu>>

\* The body of Unlock and of Lock
BodyUnlock(t) ==
    /\ th[t].pc = "body"
    /\ th[t].op = "Unlock"
    /\ LET r == UnlockResult(v, vfile, th[t].arg)
       IN /\ v' = r.v
          /\ th' = [th EXCEPT ![t].pc = "release", ![t].err = r.err]
    /\ UNCHANGED <<vfile, vtmp, vpc, vop, ret, clock, faults, crashes, rt, createdPw,
                   updVars, app, mu>>

BodyLock(t) ==
    /\ th[t].pc = "body"
    /\ th[t].op = "Lock"
    /\ v' = LockedHandle(v)
    /\ th' = [th EXCEPT ![t].pc = "release"]
    /\ UNCHANGED <<vfile, vtmp, vpc, vop, ret, clock, faults, crashes, rt, createdPw,
                   updVars, app, mu>>

\* The body of GetEntry and of ListEntries
BodyRead(t) ==
    /\ th[t].pc = "body"
    /\ th[t].op \in ReadOps
    /\ th' = [th EXCEPT ![t].pc = "release",
                        ![t].err = IF th[t].op = "GetEntry" THEN GetEntryErr(v, th[t].arg)
                                   ELSE ListEntriesErr(v)]
    /\ UNCHANGED <<vaultVars, updVars, app, mu>>

\* The deferred v.mu.Unlock() / v.mu.RUnlock(), and the return
Release(t) ==
    /\ th[t].pc = "release"
    /\ mu' = [w |-> IF mu.w = t THEN 0 ELSE mu.w, r |-> mu.r \ {t}]
    /\ th' = [th EXCEPT ![t].pc = "idle", ![t].done = th[t].op]
    /\ UNCHANGED <<vaultVars, updVars, app>>

ThreadInit == mu = NoMu /\ th = [t \in Threads |-> NoThread]

\* A process that has created its vault with password pw1
CreatedVaultInit ==
    /\ v = CreatedHandle("pw1", RandBytes(saltSize, 1), 1)
    /\ vfile = FileOf(SaveBytes(v, RandBytes(nonceSize, 1)))
    /\ vtmp = NoFile
    /\ vpc = "idle"
    /\ vop = NoOp
    /\ ret = Ret("Create", ErrNone, "pw1", TRUE)
    /\ clock = 1
    /\ faults = 0
    /\ crashes = 0
    /\ rt = RtOff
    /\ createdPw = "pw1"

ThreadNext ==
    \/ \E t \in Threads : Call(t, "SetEntry", ThreadId(t))
    \/ \E t \in Threads : Call(t, "DeleteEntry", ThreadId(t))
    \/ \E t \in Threads : Call(t, "GetEntry", ThreadId(t))
    \/ \E t \in Threads : Call(t, "ListEntries", "")
    \/ \E t \in Threads : Call(t, "Lock", "")
    \/ \E t \in Threads : Call(t, "Unlock", "pw1")
    \/ \E t \in Threads : Acquire(t)
    \/ \E t \in Threads : BodyMutate(t)
    \/ \E t \in Threads : BodyMarshal(t)
    \/ \E t \in Threads : BodyWrite(t)
    \/ \E t \in Threads : BodyRename(t)
    \/ \E t \in Threads : BodyUnlock(t)
    \/ \E t \in Threads : BodyLock(t)
    \/ \E t \in Threads : BodyRead(t)
    \/ \E t \in Threads : Release(t)

----------------------------------------------------------------------------
(* Specifications                                                          *)

Init == VaultInit /\ UpdInit /\ LaunchInit /\ ThreadInit
Next == VaultNext
Spec == Init /\ [][Next]_vars

SpecFault == Init /\ [][FaultNext]_vars

SpecUpd == Init /\ [][UpdNext]_vars
SpecUpdFault == Init /\ [][UpdFaultNext]_vars
InitVer == VaultInit /\ VerInit /\ LaunchInit /\ ThreadInit
InitThreads == CreatedVaultInit /\ UpdInit /\ LaunchInit /\ ThreadInit
SpecTamper == Init /\ [][TamperNext]_vars
SpecLaunch == Init /\ [][LaunchNext]_vars
SpecThreads == InitThreads /\ [][ThreadNext]_vars
SpecNonce == Init /\ [][NonceNext]_vars
InitStocked == StockedVaultInit /\ UpdInit /\ LaunchInit /\ ThreadInit
SpecDelete == InitStocked /\ [][DeleteNext]_vars
InitTwo == VaultInit /\ TwoInit /\ LaunchInit /\ ThreadInit
SpecTwo == InitTwo /\ [][TwoNext]_vars
SpecScripts == Init /\ [][ScriptNext]_vars
SpecNet == Init /\ [][NetNext]_vars /\ WF_vars(NetNext)
SpecVer == InitVer /\ [][VerNext]_vars

----------------------------------------------------------------------------
(* Properties of the vault                                                 *)

\* A vault file is complete when some password opens it.
CompleteVaultFile(f) ==
    \E pw \in Passwords : UnlockResult(OpenedHandle, f, pw).err = ErrNone

\* C1: at every point of save, and after a crash at any of them, the file at
\* the vault path is absent (only before the first Create renamed), or is the
\* complete previous content or the complete new content.
C1_AtomicSave ==
    /\ vpc # "idle" => vfile \in {vop.old, FileOf(vop.file)}
    /\ vfile.exists => CompleteVaultFile(vfile)
    /\ ~vfile.exists => createdPw = ""

\* A crash during os.WriteFile left a truncated temporary file next to an
\* intact vault file.
C1_Witness ==
    /\ ret.op = "crash"
    /\ vfile.exists
    /\ vtmp.exists
    /\ Len(vtmp.bytes) < Len(vfile.bytes)
    /\ ~CompleteVaultFile(vtmp)

\* C2: Unlock with a password other than the one the file was created with, on
\* a Locked handle, returns ErrWrongPassword, leaves the handle Locked, and
\* GetEntry, ListEntries, SetEntry and DeleteEntry then return ErrVaultLocked.
C2_WrongPasswordStaysLocked ==
    (ret.op = "Unlock" /\ ~ret.pre /\ ret.arg # createdPw) =>
        /\ ret.err = ErrWrongPassword
        /\ ~v.unlocked
        /\ ListEntriesErr(v) = ErrVaultLocked
        /\ SetEntryErr(v) = ErrVaultLocked
        /\ \A id \in EntryIds :
              GetEntryErr(v, id) = ErrVaultLocked /\ DeleteEntryErr(v, id) = ErrVaultLocked

\* What a round trip compares: everything but the timestamps the store assigns;
\* metadata as a mapping.
Content(e) == [ID |-> e.ID, Type |-> e.Type, Provider |-> e.Provider, Data |-> e.Data,
               Metadata |-> e.Metadata.m]
Contents(entries) == {Content(entries[k]) : k \in DOMAIN entries}

\* The same with the payload compared as a JSON value.
JsonContent(e) == [ID |-> e.ID, Type |-> e.Type, Provider |-> e.Provider, Data |-> e.Data.val,
                   Metadata |-> e.Metadata.m]
JsonContents(entries) == {JsonContent(entries[k]) : k \in DOMAIN entries}

\* The payload is a JSON document and the strings are valid UTF-8.
WellFormedEntry(e) ==
    /\ e.Data.form \in {"compact", "spaced"}
    /\ e.ID # BadUtf8
    /\ e.Provider # BadUtf8

RoundTripDone == rt.phase = "checked" /\ ret.op = "Unlock" /\ ret.arg = rt.pw

C7_FailedSaveLeavesFile ==
    [][ (vop.name \in {"SetEntry", "DeleteEntry"} /\ faults' = faults + 1) =>
            /\ vpc' = "idle"
            /\ ret'.op = vop.name
            /\ ret'.err \in {ErrWriteVault, ErrFinalizeVault}
            /\ vfile' = vop.old
            /\ vfile' = vfile ]_vars

C7_Witness ==
    /\ ret.op \in {"SetEntry", "DeleteEntry"}
    /\ ret.err = ErrFinalizeVault
    /\ vfile.exists
    /\ ~vtmp.exists

\* The operations that need an Unlocked handle
EntryOps == {"SetEntry", "GetEntry", "DeleteEntry", "ListEntries"}

\* C11: on a handle that is not Unlocked, SetEntry, GetEntry, DeleteEntry and
\* ListEntries return ErrVaultLocked and change neither the handle nor the
\* vault file (nor its temporary file).
C11_LockedOpsRefused ==
    [][ (vpc = "idle" /\ v.open /\ ~v.unlocked
           /\ (ret'.op \in EntryOps \/ vop'.name \in EntryOps)) =>
            /\ ret'.op \in EntryOps
            /\ ret'.err = ErrVaultLocked
            /\ v' = v
            /\ vfile' = vfile /\ vtmp' = vtmp
            /\ vpc' = "idle" ]_vars

C11_Witness ==
    /\ ret.op = "GetEntry"
    /\ ret.err = ErrVaultLocked
    /\ v.open /\ ~v.unlocked
    /\ vfile.exists
    /\ DOMAIN Unmarshal(OpenBody(Suffix(vfile.bytes, 6 + saltSize + nonceSize))).Entries # {}

\* C12: Lock on an Unlocked handle leaves it Locked without key, cipher and
\* entries, does not touch the vault file, and an Unlock that follows with the
\* password the vault was created with yields the entries the handle held
\* before the Lock (payloads compared as JSON values).
C12_LockThenUnlock ==
    [][ (vpc = "idle" /\ v.unlocked /\ ret'.op = "Lock") =>
            /\ ~v'.unlocked
            /\ v'.key = NoKey /\ v'.gcm = NoGcm /\ v'.data = NoData
            /\ vfile' = vfile
            /\ LET r == UnlockResult(v', vfile', createdPw)
               IN /\ r.err = ErrNone
                  /\ DOMAIN r.v.data.Entries = DOMAIN v.data.Entries
                  /\ JsonContents(r.v.data.Entries) = JsonContents(v.data.Entries) ]_vars

\* C13: when one byte of the salt, the nonce, the ciphertext or the tag of a
\* valid vault file has been changed, Unlock fails under every password, the
\* password that opened the file included; a handle that was not unlocked
\* stays locked, holds no entries and refuses GetEntry; an Unlock that
\* succeeded would have to hold the entries that were saved.
TamperedBody == rt.phase = "tamperchecked" /\ rt.at > 6
C13_TamperDetected ==
    TamperedBody =>
        /\ ret.op = "Unlock"
        /\ ret.err # ErrNone
        /\ ret.err = ErrNone => v.data.Entries = rt.E
        /\ ~ret.pre => /\ ~v.unlocked
                       /\ DOMAIN v.data.Entries = {}
                       /\ \A id \in EntryIds : GetEntryErr(v, id) = ErrVaultLocked
C13_Witness ==
    /\ TamperedBody
    /\ rt.at > 6 + saltSize + nonceSize
    /\ vfile.bytes[rt.at].u = "c"
    /\ ret.op = "Unlock" /\ ret.arg = rt.pw /\ ~ret.pre
    /\ ret.err = ErrWrongPassword
    /\ DOMAIN rt.E # {}

\* C14: when a byte of the magic or of the version field of a valid vault
\* file has been changed, Unlock fails with the invalid-vault or the
\* unsupported-version error and leaves the handle as it was: no salt is read,
\* no key or cipher is derived, nothing is decrypted, and a locked handle
\* stays locked. A changed magic gives the invalid-vault error.
C14_BadHeaderRejected ==
    [][ (rt.phase = "tampered" /\ rt.at <= 6 /\ ret'.op = "Unlock") =>
            /\ ret'.err \in {ErrInvalidVault, ErrUnsupportedVersion}
            /\ rt.at <= 4 => ret'.err = ErrInvalidVault
            /\ v' = v
            /\ vfile' = vfile ]_vars
C14_Witness ==
    /\ rt.phase = "tamperchecked" /\ rt.at = 6
    /\ Prefix(vfile.bytes, 4) = PutUint32(magicNumber)
    /\ SubSeq(vfile.bytes, 5, 6) = PutUint16(vaultVersion + 1)
    /\ ret.op = "Unlock" /\ ret.arg = rt.pw /\ ret.err # ErrNone
    /\ ~v.unlocked /\ v.salt = NoSalt /\ v.key = NoKey /\ v.gcm = NoGcm /\ v.data = NoData

\* C15: a ListEntries that succeeds returns one element per stored entry,
\* with the identifiers of the mapping; each element has the stored entry's
\* kind, provider, timestamps, expiry and metadata, and an empty Data field.
C15_ListOmitsData ==
    (ret.op = "ListEntries" /\ ret.err = ErrNone) =>
        LET L == ListEntriesVal(v)
            stored == v.data.Entries
        IN /\ v.unlocked
           /\ {e.ID : e \in L} = DOMAIN stored
           /\ Cardinality(L) = Cardinality(DOMAIN stored)
           /\ \A e \in L :
                 /\ e.Data = NilData
                 /\ e.Type = stored[e.ID].Type
                 /\ e.Provider = stored[e.ID].Provider
                 /\ e.CreatedAt = stored[e.ID].CreatedAt
                 /\ e.UpdatedAt = stored[e.ID].UpdatedAt
                 /\ e.ExpiresAt = stored[e.ID].ExpiresAt
                 /\ e.Metadata = stored[e.ID].Metadata
C15_Witness ==
    /\ ret.op = "ListEntries" /\ ret.err = ErrNone
    /\ Cardinality(DOMAIN v.data.Entries) = 2
    /\ \E k \in DOMAIN v.data.Entries : v.data.Entries[k].Data.form = "compact"
    /\ \E k \in DOMAIN v.data.Entries : v.data.Entries[k].Metadata # NilMeta

\* C16: a Create that started while a vault file holding entries existed
\* returns an error and leaves that file as it was.
FileEntries(file) == Unmarshal(OpenBody(Suffix(file.bytes, 6 + saltSize + nonceSize))).Entries
C16_CreateKeepsExisting ==
    [][ (vop.name = "Create" /\ vpc # "idle" /\ vpc' = "idle"
           /\ CompleteVaultFile(vop.old) /\ DOMAIN FileEntries(vop.old) # {}) =>
            /\ ret'.op = "Create" => ret'.err # ErrNone
            /\ vfile' = vop.old ]_vars

----------------------------------------------------------------------------
(* Properties of the updater                                               *)

\* The regular files under the vault, sessions and config directories
ProtectedFiles(d) ==
    LET under == {q \in DOMAIN d.files : \E pd \in ProtectedDirs : HasPrefix(q, pd)}
    IN [q \in under |-> d.files[q]]

\* C4: whatever the archive, PerformUpdate and PerformOfflineUpdate never
\* create or modify a file under the vault, sessions or config directories.
C4_ProtectedDirsUntouched == ProtectedFiles(disk) = ProtectedFiles(InitDisk)

\* The operation of p has returned and nothing ran since.
Returned(p, op) == up[p].pc = "idle" /\ up[p].ret.op = op

\* The archive that was downloaded does not have the digest the manifest
\* declares for the platform, letter case aside.
DigestDiffers(p) ==
    /\ up[p].ret.archive # NoArchive
    /\ up[p].platform \in DOMAIN up[p].ret.manifest.downloads
    /\ Sha256Hex(up[p].ret.archive).hex # up[p].ret.manifest.downloads[up[p].platform].sha256.hex

\* C5: when the digest of the downloaded archive differs from the declared
\* one, PerformUpdate extracts no entry, returns the checksum verification
\* error, and leaves bin/ byte-identical to what it was when it was called.
C5_ChecksumMismatch ==
    \A p \in UProcs :
        (Returned(p, "PerformUpdate") /\ DigestDiffers(p)) =>
            /\ up[p].ret.err = ErrChecksum
            /\ up[p].ret.nex = 0
            /\ Tree(disk, binDir) = Tree(up[p].ret.pre, binDir)

C5_Witness ==
    \E p \in UProcs :
        /\ Returned(p, "PerformUpdate") /\ DigestDiffers(p)
        /\ up[p].ret.archive = CraftedArchive
        /\ up[p].ret.rb = "restored"

\* C6: when the download, the checksum verification or the extraction of
\* PerformUpdate fails, a rollback has been attempted by the time it returns,
\* and the error returned names the step that failed.
C6_RollbackAttempted ==
    \A p \in UProcs :
        (up[p].ret.op = "PerformUpdate"
           /\ up[p].ret.step \in {"download", "verify", "extract"}) =>
            /\ up[p].ret.rb # "none"
            /\ up[p].ret.step = "download" => up[p].ret.err = ErrDownload
            /\ up[p].ret.step = "verify" => up[p].ret.err = ErrChecksum
            /\ up[p].ret.step = "extract" => up[p].ret.err = ErrExtraction
            /\ ErrDownload # ErrChecksum /\ ErrChecksum # ErrExtraction
            /\ ErrDownload # ErrExtraction

C6_Witness ==
    \E p \in UProcs :
        /\ Returned(p, "PerformUpdate")
        /\ up[p].ret.step = "download"
        /\ up[p].ret.rb = "restored"
        /\ up[p].ret.err = ErrDownload

\* A complete payload: the binaries of the installed release or those of the
\* release the archives carry.
OldPayload == Tree(InitDisk, binDir).files
NewPayload == {<< <<"claude-go">>, "new-claude" >>, << <<"helper">>, "new-helper" >>}
PayloadComplete(d) == DirExists(d, binDir) /\ Tree(d, binDir).files \in {OldPayload, NewPayload}
PayloadPartial(d) == DirExists(d, binDir) /\ ~PayloadComplete(d)
SnapshotComplete(d) ==
    DirExists(d, rollbackDir) /\ Tree(d, rollbackDir).files \in {OldPayload, NewPayload}

\* C8: after an interrupted update, while the snapshot is the only complete
\* copy of the payload, no step of a later run deletes or overwrites it.
C8_SnapshotKept ==
    [][(ucrashes > 0 /\ SnapshotComplete(disk) /\ PayloadPartial(disk))
          => (SnapshotComplete(disk') \/ PayloadComplete(disk'))]_vars

\* A zip archive all of whose entries can be read
ValidArchive(a) == a.zip /\ \A i \in 1..Len(a.entries) : ~a.entries[i].corrupt

\* The inputs of the happy path: a download record for the platform, a
\* download that delivers a valid archive, and a matching digest.
HappyInputs(p) ==
    /\ up[p].platform \in DOMAIN up[p].ret.manifest.downloads
    /\ up[p].ret.archive # NoArchive
    /\ ValidArchive(up[p].ret.archive)
    /\ ~DigestDiffers(p)

\* C9: on the happy path PerformUpdate returns nil and leaves the archive's
\* binaries in bin/, the manifest's version in the version marker, and no
\* rollback snapshot.
C9_HappyPath ==
    \A p \in UProcs :
        (Returned(p, "PerformUpdate") /\ HappyInputs(p)) =>
            /\ up[p].ret.err = ErrNone
            /\ \A i \in 1..Len(up[p].ret.archive.entries) :
                 LET e == up[p].ret.archive.entries[i]
                 IN (~e.dir /\ HasPrefix(DestPath(e), binDir)) =>
                       /\ DestPath(e) \in DOMAIN disk.files
                       /\ disk.files[DestPath(e)] = e.data
            /\ readVersionFile(disk.marker) = up[p].ret.manifest.version
            /\ ~DirExists(disk, rollbackDir)
            /\ \A q \in DOMAIN disk.files : ~HasPrefix(q, rollbackDir)

C9_Witness ==
    \E p \in UProcs :
        /\ Returned(p, "PerformUpdate") /\ HappyInputs(p)
        /\ up[p].ret.archive = GoodArchive
        /\ up[p].ret.pre = InitDisk
        /\ disk.files[<<"bin", "claude-go">>] = "new-claude"

\* The numbers a version string stands for, found by formatting
VersionStrings == [t \in VersionTuples |-> FormatVersion(t)]
Decode(s) == CHOOSE t \in VersionTuples : VersionStrings[t] = s
Pad3(t) == [i \in 1..3 |-> IF i <= Len(t) THEN t[i] ELSE 0]
NumGreater(a, b) == \E i \in 1..3 : a[i] > b[i] /\ \A j \in 1..(i - 1) : a[j] = b[j]
MarkerNums(m) == IF m.exists /\ m.json THEN Decode(m.version) ELSE <<0, 0, 0>>

Installed(d) ==
    [bin |-> DirExists(d, binDir), payload |-> Tree(d, binDir), marker |-> d.marker,
     cache |-> Tree(d, cacheDir)]

\* C17: when createRollback failed, the operation returned the backup error,
\* attempted no rollback, extracted nothing, and the payload directory, the
\* version marker and the cache are what they were when it was called.
C17_BackupFailureAborts ==
    \A p \in UProcs :
        (up[p].pc = "idle" /\ up[p].ret.step = "backup") =>
            /\ up[p].ret.op \in {"PerformUpdate", "PerformOfflineUpdate"}
            /\ up[p].ret.err = ErrBackup
            /\ up[p].ret.rb = "none"
            /\ up[p].ret.nex = 0
            /\ Installed(disk) = Installed(up[p].ret.pre)
C17_Witness ==
    \E p \in UProcs :
        /\ Returned(p, "PerformOfflineUpdate")
        /\ up[p].ret.step = "backup"
        /\ up[p].ret.err = ErrBackup
        /\ up[p].ret.archive = GoodArchive
        /\ PayloadComplete(disk)
        /\ DirExists(disk, rollbackDir) /\ ~SnapshotComplete(disk)

\* C18: a PerformUpdate whose manifest has no download record for the
\* updater's platform returns the no-download-for-platform error with the disk
\* as it was at the call (no snapshot, no download, payload, marker and cache
\* unchanged), and no step of PerformUpdate ever runs on such a manifest.
C18_NoPlatformRecord ==
    \A p \in UProcs :
        /\ (Returned(p, "PerformUpdate")
               /\ up[p].platform \notin DOMAIN up[p].ret.manifest.downloads) =>
                /\ up[p].ret.err = ErrNoDownload
                /\ ErrNoDownload # ErrNone
                /\ up[p].ret.step = "" /\ up[p].ret.rb = "none" /\ up[p].ret.nex = 0
                /\ disk = up[p].ret.pre
        /\ (up[p].pc # "idle" /\ up[p].mode = "PerformUpdate") =>
                up[p].platform \in DOMAIN up[p].manifest.downloads
C18_Witness ==
    \E p \in UProcs :
        /\ Returned(p, "PerformUpdate")
        /\ DOMAIN up[p].ret.manifest.downloads # {}
        /\ up[p].platform \notin DOMAIN up[p].ret.manifest.downloads
        /\ up[p].ret.err = ErrNoDownload
        /\ ~DirExists(disk, rollbackDir)

\* C19: when the rollback after a failed download, verification or extraction
\* did not restore the payload, the error the operation returns is not the one
\* it returns when the rollback succeeded.
C19_RollbackFailureReported ==
    \A p \in UProcs :
        (up[p].pc = "idle"
           /\ up[p].ret.op \in {"PerformUpdate", "PerformOfflineUpdate"}
           /\ up[p].ret.step \in {"download", "verify", "extract"}
           /\ up[p].ret.rb # "restored") =>
            up[p].ret.err \notin {ErrDownload, ErrChecksum, ErrExtraction}

\* C20: when no run was interrupted, after PerformUpdate or
\* PerformOfflineUpdate has returned from a run in which no rollback failed
\* (success, failure with the payload restored, failure of createRollback),
\* there is no snapshot directory and no file under it.
C20_NoSnapshotRemains ==
    \A p \in UProcs :
        (ucrashes = 0
           /\ up[p].pc = "idle"
           /\ up[p].ret.op \in {"PerformUpdate", "PerformOfflineUpdate"}
           /\ up[p].ret.rb \in {"none", "restored"}) =>
            /\ ~DirExists(disk, rollbackDir)
            /\ \A q \in DOMAIN disk.files : ~HasPrefix(q, rollbackDir)

\* The launcher and updater scripts on the disk: the files extractUpdate takes
\* for their suffix.
Scripts(d) ==
    LET names == {q \in DOMAIN d.files : Last(q) \in ShNames \cup BatNames}
    IN [q \in names |-> d.files[q]]

\* C21: after an extraction that failed when it had written at least one
\* entry, followed by a rollback that restored the snapshot, the binaries
\* directory and every script are what they were when the operation was called.
C21_RollbackRestoresPayload ==
    \A p \in UProcs :
        (up[p].pc = "idle"
           /\ up[p].ret.op \in {"PerformUpdate", "PerformOfflineUpdate"}
           /\ up[p].ret.step = "extract" /\ up[p].ret.nex > 0
           /\ up[p].ret.rb = "restored") =>
            /\ DirExists(disk, binDir) = DirExists(up[p].ret.pre, binDir)
            /\ Tree(disk, binDir) = Tree(up[p].ret.pre, binDir)
            /\ Scripts(disk) = Scripts(up[p].ret.pre)

\* C22: on every disk an update can leave behind, rollback without a snapshot
\* returns the no-rollback error and leaves the disk alone, and a second
\* rollback right after a first leaves the disk the first one left; the steps
\* of rollback inside an operation end on the disk rollback computes.
C22_RollbackIdempotent ==
    /\ ~DirExists(disk, rollbackDir) =>
          /\ rollback(disk).err = ErrNoRollback
          /\ rollback(disk).disk = disk
    /\ rollback(rollback(disk).disk).disk = rollback(disk).disk
    /\ \A p \in UProcs :
          (up[p].pc = "return" /\ up[p].rb = "restored") =>
              /\ rollback(disk).err = ErrNoRollback
              /\ rollback(disk).disk = disk
C22_Witness ==
    \E p \in UProcs :
        /\ up[p].pc = "return" /\ up[p].rb = "restored"
        /\ up[p].step = "extract" /\ up[p].nex > 0
        /\ PayloadComplete(disk)
        /\ rollback(disk).err = ErrNoRollback

\* C23: when a run of the launcher that created or unlocked the vault has
\* ended (Run returned, or the process was interrupted), the handle is locked
\* and holds no key; Create ran only without a vault file, Open and Unlock
\* only with one.
C23_LockOnEveryExit ==
    (app.pc = "idle" /\ app.used) =>
        /\ ~v.unlocked
        /\ v.key = NoKey
C23_CreateOrOpen ==
    [][ /\ (app.pc # "idle" /\ ret'.op = "Create" /\ ret' # ret) => ~vfile.exists
        /\ (app.pc # "idle" /\ ret'.op \in {"Open", "Unlock"} /\ ret' # ret) => vfile.exists
      ]_vars

\* C24: while a goroutine is between the start and the end of SetEntry,
\* DeleteEntry, Unlock or Lock, no other goroutine is inside any operation of
\* the handle; whenever no mutation is in progress the file holds the entries
\* of the in-memory mapping; and when the last calls of the two goroutines
\* were successful SetEntry calls for their two identifiers, both entries are
\* in the mapping and in the file.
BothStored ==
    /\ \A t \in Threads : ThreadId(t) \in DOMAIN v.data.Entries
    /\ \A t \in Threads : ThreadId(t) \in DOMAIN FileEntries(vfile)
C24_ExclusiveMutation ==
    /\ \A t \in Threads, u \in Threads :
          (t # u /\ InBody(t) /\ th[t].op \in WriteOps) => ~InBody(u)
    /\ (mu.w = 0 /\ v.unlocked) =>
          /\ CompleteVaultFile(vfile)
          /\ FileEntries(vfile) = v.data.Entries
    /\ (\A t \in Threads : th[t].pc = "idle" /\ th[t].done = "SetEntry"
                             /\ th[t].err = ErrNone) => BothStored
C24_Witness ==
    /\ \A t \in Threads : th[t].pc = "idle" /\ th[t].done = "SetEntry" /\ th[t].err = ErrNone
    /\ \E t \in Threads : th[t].contended
    /\ BothStored
C24_ReadersOverlap == \A t \in Threads : InBody(t) /\ th[t].op \in ReadOps

\* C25: no step of an operation other than Create changes the salt bytes of
\* an existing vault file or removes the file.
FileSalt(file) == SubSeq(file.bytes, 7, 6 + saltSize)
C25_SaltFixed ==
    [][ (vfile.exists /\ vop.name # "Create") =>
            /\ vfile'.exists
            /\ FileSalt(vfile') = FileSalt(vfile) ]_vars
C25_Witness ==
    /\ ret.op = "DeleteEntry" /\ ret.err = ErrNone
    /\ vfile.exists /\ Len(FileSalt(vfile)) = saltSize
    /\ FileSalt(vfile) = v.salt
    /\ v.unlocked

\* The nonce bytes of a vault file, and the key its ciphertext was sealed with
FileNonce(file) == SubSeq(file.bytes, 6 + saltSize + 1, 6 + saltSize + nonceSize)
FileKey(file) == file.bytes[6 + saltSize + nonceSize + 1].kid
SameKey(f, g) == FileSalt(f) = FileSalt(g) /\ FileKey(f) = FileKey(g)

\* C26 as amended: the file a save writes carries the 12 bytes that this save
\* drew from the random source, and its ciphertext is sealed with them; a save
\* under the key of the file it replaces has another nonce than that file
\* whenever its draw differs from that file's nonce.
C26_FreshDraw ==
    vpc # "idle" =>
        /\ Len(vop.nonce) = nonceSize
        /\ FileNonce(FileOf(vop.file)) = vop.nonce
        /\ \A i \in (6 + saltSize + nonceSize + 1)..Len(vop.file) :
              vop.file[i].nonce = Digest(vop.nonce)
        /\ (vop.old.exists /\ vop.nonce # FileNonce(vop.old)) =>
              FileNonce(FileOf(vop.file)) # FileNonce(vop.old)
C26_Witness ==
    /\ vpc = "save_rename" /\ vop.name = "SetEntry"
    /\ vop.old.exists /\ SameKey(FileOf(vop.file), vop.old)
    /\ vop.nonce # FileNonce(vop.old)
    /\ FileNonce(vtmp) = vop.nonce

\* C26 as stated: a save of SetEntry or DeleteEntry under the key of the file
\* it replaces never has the nonce of that file.
C26_NeverSameNonce ==
    (vpc # "idle" /\ vop.name # "Create" /\ vop.old.exists
       /\ SameKey(FileOf(vop.file), vop.old)) =>
        FileNonce(FileOf(vop.file)) # FileNonce(vop.old)

\* C27: PerformOfflineUpdate never downloads, verifies a checksum or writes
\* the version marker; when it opens the archive the snapshot is a copy of the
\* payload directory and nothing else on the disk has changed; when it
\* returns after a failed extraction a rollback was attempted and the error
\* is the extraction error; when it returns nil there is no snapshot, the
\* cache directory is empty and the marker is the one it found.
Offline(p) == up[p].mode = "PerformOfflineUpdate"
InRequest(p) == up[p].pc \in {"fetch", "download"}
C28_RequestsReturn == \A p \in UProcs : InRequest(p) ~> ~InRequest(p)

\* C29: SetEntry on an unlocked vault assigns the creation timestamp only on the
\* first insert of an identifier: a SetEntry for an identifier that is already
\* stored leaves that entry's creation timestamp as the first insert set it
\* (and refreshes the update timestamp and rewrites the whole file).
SetEntryStep == vpc = "idle" /\ vpc' = "save_write" /\ vop'.name = "SetEntry"
Reinsert == SetEntryStep /\ vop'.arg \in DOMAIN v.data.Entries /\ FileEntries(vfile) = v.data.Entries
C29_CreatedAtKept ==
    [][Reinsert => v'.data.Entries[vop'.arg].CreatedAt = v.data.Entries[vop'.arg].CreatedAt]_vars

\* C30: on an unlocked vault GetEntry and DeleteEntry for an identifier that is
\* not stored return entry-not-found, and such a DeleteEntry changes neither the
\* file, nor the mapping, nor the vault's update timestamp; DeleteEntry for a
\* stored identifier removes that entry and no other from the mapping and from
\* what a fresh Open and Unlock of the rewritten file shows.
FreshView(file) == UnlockResult(OpenedHandle, file, createdPw)
Without(E, id) == [k \in DOMAIN E \ {id} |-> E[k]]
LookupMiss ==
    /\ vpc = "idle" /\ v.unlocked
    /\ ret'.op \in {"GetEntry", "DeleteEntry"}
    /\ ret'.arg \notin DOMAIN v.data.Entries
DeleteStep == vpc = "idle" /\ vpc' = "save_write" /\ vop'.name = "DeleteEntry"
DeleteDone ==
    vpc = "save_rename" /\ vop.name = "DeleteEntry" /\ ret' = Ret("DeleteEntry", ErrNone, vop.arg, TRUE)
C30_DeleteAndNotFound ==
    [][/\ LookupMiss => /\ ret'.err = ErrEntryNotFound
                        /\ v' = v /\ vfile' = vfile /\ vtmp' = vtmp /\ vpc' = "idle"
       /\ DeleteStep => /\ vop'.arg \in DOMAIN v.data.Entries
                        /\ v'.data.Entries = Without(v.data.Entries, vop'.arg)
                        /\ FreshView(vfile).v.data.Entries = v.data.Entries
                             => /\ FreshView(FileOf(vop'.file)).err = ErrNone
                                /\ FreshView(FileOf(vop'.file)).v.data.Entries
                                     = Without(FreshView(vfile).v.data.Entries, vop'.arg)
       /\ DeleteDone => vfile' = FileOf(vop.file) /\ ~vtmp'.exists]_vars

\* C31: a failed Unlock returns the error kind of the vault taxonomy: a wrong
\* magic or an unsupported version gives ErrInvalidVault; a file too short for
\* magic, version, salt, nonce and tag gives ErrVaultCorrupted; and
\* ErrWrongPassword is returned only when the authenticated decryption of a
\* file of full length failed.
UnlockStep == vpc = "idle" /\ ret'.op = "Unlock" /\ vfile.exists
BadHeader(d) ==
    /\ Len(d) >= 6
    /\ \/ Uint32(SubSeq(d, 1, 4)) # magicNumber
       \/ Uint16(SubSeq(d, 5, 6)) # vaultVersion
TooShort(d) == Len(d) < 6 + saltSize + nonceSize + gcmTagSize
C31_ErrorKinds ==
    [][UnlockStep =>
         /\ BadHeader(vfile.bytes) => ret'.err = ErrInvalidVault
         /\ (~BadHeader(vfile.bytes) /\ TooShort(vfile.bytes)) => ret'.err = ErrVaultCorrupted
         /\ ret'.err = ErrWrongPassword
              => /\ ~BadHeader(vfile.bytes) /\ ~TooShort(vfile.bytes)
                 /\ ~OpenOk(NewGCM(IDKey(ret'.arg, SubSeq(vfile.bytes, 7, 6 + saltSize))),
                            SubSeq(vfile.bytes, 6 + saltSize + 1, 6 + saltSize + nonceSize),
                            Suffix(vfile.bytes, 6 + saltSize + nonceSize))]_vars

\* C32: when writing the version marker failed after a successful extraction,
\* PerformUpdate does not roll back: rollback runs only after a failed backup,
\* download, verification or extraction, and the PerformUpdate that returned
\* without the marker of its manifest returned nil with the new binaries
\* installed, the cache emptied and the snapshot deleted (unless deleting it
\* failed as well).
MarkerStale(p) == disk.marker # MarkerOf(up[p].ret.manifest.version)
C32_VersionFailureNotFatal ==
    \A p \in UProcs :
        /\ up[p].pc \in {"back_remove", "back_rename", "return"}
              => up[p].step \in {"backup", "download", "verify", "extract"}
        /\ (Returned(p, "PerformUpdate") /\ up[p].ret.step = "" /\ MarkerStale(p)
              /\ HasDownload(up[p].ret.manifest, up[p].platform)) =>
              /\ up[p].ret.err = ErrNone
              /\ up[p].ret.rb = "none"
              /\ up[p].ret.archive = GoodArchive => Tree(disk, binDir).files = NewPayload
              /\ DirExists(disk, cacheDir) /\ DirEmpty(disk, cacheDir)
              /\ DirExists(disk, rollbackDir) => ufaults >= 2
C32_Witness ==
    \E p \in UProcs :
        /\ Returned(p, "PerformUpdate")
        /\ up[p].ret.err = ErrNone
        /\ up[p].ret.archive = GoodArchive
        /\ disk.marker = GarbageMarker
        /\ Tree(disk, binDir).files = NewPayload
        /\ ~DirExists(disk, rollbackDir)

\* C33: nothing keeps a second update from starting on the same USB root
\* while one is running: an Updater that has not run yet can start its
\* operation whatever the other invocation is doing. The interleaving the
\* claim describes is C33_Witness.
C33_NoUpdateLock ==
    \A p \in DOMAIN up :
        (up[p].exists /\ up[p].pc = "idle" /\ up[p].ret = NoURet)
            => ENABLED PerformOfflineUpdateOnce(p, GoodArchive)
\* q's extraction failed after p's createRollback had replaced q's snapshot by
\* a copy of the half-extracted payload: q's rollback restored that copy, and
\* no directory holds the pre-update payload any more.
C33_Witness ==
    \E p, q \in DOMAIN up :
        /\ p # q
        /\ Returned(q, "PerformOfflineUpdate")
        /\ up[q].ret.step = "extract" /\ up[q].ret.rb = "restored"
        /\ up[p].mode = "PerformOfflineUpdate" /\ up[p].pc = "ex_open"
        /\ PayloadPartial(disk)
        /\ ~DirExists(disk, rollbackDir)

\* C34: update.sh and update.bat extract a downloaded archive only after its
\* checksum was verified against the manifest; a run that failed after the
\* backup of bin ends with bin as it was; and the vault, sessions and config
\* directories are never written by the scripts.
UserData(d) == <<Tree(d, <<"vault">>), Tree(d, <<"sessions">>), Tree(d, <<"config">>)>>
C34_ScriptsVerifyAndRestore ==
    \A p \in UProcs :
        /\ (IsScript(p) /\ up[p].pc = "sc_extract")
              => VerifyOk(up[p].archive, up[p].manifest.downloads[LinuxAMD64].sha256)
        /\ (up[p].pc = "idle" /\ up[p].ret.op \in ScriptNames /\ up[p].ret.err # ErrNone)
              => Tree(disk, binDir) = Tree(up[p].ret.pre, binDir)
        /\ (IsScript(p) \/ up[p].ret.op \in ScriptNames) => UserData(disk) = UserData(InitDisk)

\* C35: when the save inside SetEntry or DeleteEntry failed, the handle holds
\* the mapping it held before the call: the identifiers GetEntry and
\* ListEntries show on that handle are those of the file on disk.
SaveFailed ==
    /\ vpc = "idle" /\ v.unlocked /\ vfile.exists
    /\ ret.op \in {"SetEntry", "DeleteEntry"}
    /\ ret.err \in {ErrSerialize, ErrWriteVault, ErrFinalizeVault}
C35_FailedSaveUndone ==
    SaveFailed => /\ DOMAIN v.data.Entries = DOMAIN FileEntries(vfile)
                  /\ \A id \in EntryIds :
                        (GetEntryErr(v, id) = ErrNone) = (id \in DOMAIN FileEntries(vfile))

\* C36: in every state of a handle: if it is Unlocked it holds the key, the
\* cipher and the decrypted mapping; if it is not Unlocked (after Open, after
\* Lock, after a failed Unlock) it holds no key, no cipher and no mapping.
C36_HandleInvariant ==
    (vpc = "idle" /\ v.open) =>
        IF v.unlocked
        THEN v.key # NoKey /\ v.gcm # NoGcm /\ v.data.present
        ELSE v.key = NoKey /\ v.gcm = NoGcm /\ v.data = NoData

\* C37: an Unlock that fails on a handle that is already Unlocked leaves the
\* handle's salt, key, cipher and entries as they were before the call (so
\* that the next save still encrypts under the original password).
C37_FailedUnlockFrame ==
    [][(vpc = "idle" /\ v.unlocked /\ ret'.op = "Unlock" /\ ret'.err # ErrNone)
         => /\ v'.salt = v.salt /\ v'.key = v.key /\ v'.gcm = v.gcm
            /\ v'.data = v.data /\ v'.unlocked]_vars

\* C38: after PerformUpdate(m) returned nil and wrote the version marker, a
\* CheckForUpdate on the same Updater against a manifest of m's version
\* reports no update.
CheckStep(p) ==
    /\ up[p].exists /\ up[p].pc = "idle"
    /\ up'[p].pc = "idle" /\ up'[p].check.done /\ up'[p].check.err = ErrNone
    /\ up'[p].ret = up[p].ret
C38_NoUpdateAfterUpdate ==
    [][\A p \in UProcs :
         (/\ CheckStep(p)
          /\ up[p].ret.op = "PerformUpdate" /\ up[p].ret.err = ErrNone
          /\ disk.marker = MarkerOf(up[p].ret.manifest.version)
          /\ up'[p].check.version = up[p].ret.manifest.version)
         => ~up'[p].check.has]_vars

\* Archives whose entry names leave the directory they are joined to, or are
\* absolute ("/etc/evil.sh": the first component is empty).
TraversalArchive ==
    [id |-> "traversal", zip |-> TRUE,
     entries |-> << ZipFile(<<"bin", "claude-go">>, "new-claude"),
                    ZipFile(<<"bin", "..", "..", "outside.sh">>, "evil") >>]
AbsoluteArchive ==
    [id |-> "absolute", zip |-> TRUE,
     entries |-> << ZipFile(<<"bin", "helper">>, "new-helper"),
                    ZipFile(<<"", "etc", "evil.sh">>, "evil") >>]

\* An archive with an entry whose cleaned name lies in the snapshot directory,
\* followed by an entry that cannot be read.
SnapshotArchive ==
    [id |-> "snapshot", zip |-> TRUE,
     entries |-> << ZipFile(<<"bin", "claude-go">>, "new-claude"),
                    ZipFile(<<"bin", "..", ".rollback", "claude-go">>, "evil"),
                    ZipCorrupt(<<"bin", "helper">>, "new-helper") >>]

SlipArchives ==
    {GoodArchive, TraversalArchive, AbsoluteArchive, CorruptArchive, SnapshotArchive}

SlipNext ==
    \/ \E p \in UProcs : NewUpdater(p, LinuxAMD64)
    \/ \E p \in UProcs, a \in SlipArchives :
          PerformOfflineUpdate(p, a)
    \/ \E p \in UProcs : RbRemove(p)
    \/ \E p \in UProcs : RbCopy(p)
    \/ \E p \in UProcs : ExtractOpen(p)
    \/ \E p \in UProcs : ExtractNext(p)
    \/ \E p \in UProcs : cleanupRollback(p)
    \/ \E p \in UProcs : clearCache(p)
    \/ \E p \in UProcs : RollbackRemove(p)
    \/ \E p \in UProcs : RollbackRename(p)
    \/ \E p \in UProcs : ReturnError(p)
SpecSlip == Init /\ [][SlipNext]_vars

\* The path, relative to the USB root, stays under the root.
UnderRoot(path) == path = <<>> \/ Head(path) # ".."

\* C39: every file a step of extractUpdate creates or overwrites lies under
\* the USB root, whatever the entry's name is.
C39_ExtractInsideRoot ==
    [][\A p \in UProcs : up[p].pc = "extract" =>
         \A path \in DOMAIN disk'.files :
           (path \notin DOMAIN disk.files \/ disk'.files[path] # disk.files[path])
             => UnderRoot(path)]_vars

\* The positions of a run between the successful return of createRollback and
\* the removal of the snapshot by cleanupRollback or its rename by rollback.
SnapshotHeld(p) ==
    up[p].pc \in {"download", "verify", "ex_open", "extract", "version", "cleanup",
                  "back_remove", "back_rename"}

\* C40: while a run holds its snapshot, the snapshot is the copy of the
\* binaries directory as it was when the run began, and no step changes it.
C40_SnapshotIntact ==
    \A p \in UProcs :
        (up[p].exists /\ SnapshotHeld(p))
            => Tree(disk, rollbackDir) = Tree(up[p].pre, binDir)

====
